---- MODULE Spec2Model ----
(***************************************************************************)
(* Model of brainglobe-heatmap: the pole-of-inaccessibility search of      *)
(* find_annotation_position_inside_polygon, the 2D plotting orchestration  *)
(* of Heatmap.plot_subplot, the segment keys of Plane.get_projections, the *)
(* construction of Plane and Slicer, and the construction and display of a *)
(* Heatmap.                                                                *)
(*                                                                         *)
(* Coordinates, radii and precisions are integers ("ticks"); the inputs    *)
(* are chosen so that every cell centre and radius the code computes is a  *)
(* whole tick.  Distances are in units of 1/Resolution tick, rounded down  *)
(* by ISqrt.                                                               *)
(***************************************************************************)
EXTENDS Integers, Sequences, FiniteSets, TLC

VARIABLES
    polygon_vertices,  \* argument of find_annotation_position_inside_polygon
    precision,         \* argument of find_annotation_position_inside_polygon
    pc,                \* position in find_annotation_position_inside_polygon
    cell_queue,        \* the heap of cells
    best_distance, best_x, best_y,
    popped,            \* the cell taken by the last heappop (or NoCell)
    result,            \* what the call returned or raised
    regions_meshes,    \* Heatmap.regions_meshes: the region actors, no root
    root,              \* scene.root
    plane0,            \* slicer.plane0
    annotate_regions,  \* Heatmap.annotate_regions
    format,            \* Heatmap.format
    projected,         \* the dict get_projections returned, in key order
    fills,             \* the ax.fill calls, in order
    annotations,       \* the ax.annotate calls, in order
    last_call,         \* the operation that ran last and how it ended
    plane1,            \* slicer.plane1
    coordinates,       \* the grouped dict of get_structures_slice_coords
    call_args,         \* the arguments of the last Plane or Slicer call
    ret,               \* what the last Plane or Slicer call returned or raised
    values,            \* Heatmap.values
    vmin, vmax,        \* Heatmap.vmin, Heatmap.vmax
    colors,            \* Heatmap.colors, in key order
    label_regions,     \* Heatmap.label_regions
    self_orientation,  \* Heatmap.orientation
    calls              \* the calls the last operation made on the scene,
                       \* the figure and the colorbar, in order

searchVars == <<polygon_vertices, precision, pc, cell_queue,
                best_distance, best_x, best_y, popped, result>>

plotVars == <<regions_meshes, root, plane0, annotate_regions, format,
              projected, fills, annotations, last_call>>

slicerVars == <<plane1, coordinates, call_args, ret>>

heatmapVars == <<values, vmin, vmax, colors, label_regions, self_orientation,
                 calls>>

vars == <<searchVars, plotVars, slicerVars, heatmapVars>>

(***************************************************************************)
(* Bounds of the model.                                                    *)
(***************************************************************************)
\* arm thickness of the thin shapes ranges over 1..MaxThick (times 2 ticks)
MaxThick == 3
\* an actor is cut by the plane in at most MaxPieces pieces
MaxPieces == 2
\* the bounding boxes have sides 32, 64, ..., 32 * MaxScale ticks
MaxScale == 2
Sizes == {32 * k : k \in 1..MaxScale}
\* the optimality property samples the bounding box every SampleStep ticks
SampleStep == 2
\* precision tolerances, in ticks
Precisions == {2, 4, 16}

\* distances are kept in units of 1/Resolution tick
Resolution == 16

\* float("-inf"), the distance of a point outside the polygon
NegInf == -1

(***************************************************************************)
(* Integer helpers.                                                        *)
(***************************************************************************)
Abs(n) == IF n < 0 THEN -n ELSE n

Min2(a, b) == IF a <= b THEN a ELSE b

RECURSIVE ISqrtBS(_, _, _)
ISqrtBS(n, lo, hi) ==
    IF lo >= hi THEN lo
    ELSE LET mid == (lo + hi + 1) \div 2
         IN IF mid * mid <= n THEN ISqrtBS(n, mid, hi)
            ELSE ISqrtBS(n, lo, mid - 1)

\* np.sqrt, rounded down
ISqrt(n) ==
    IF n < 256 THEN ISqrtBS(n, 0, 15)
    ELSE IF n < 65536 THEN ISqrtBS(n, 16, 255)
    ELSE IF n < 16777216 THEN ISqrtBS(n, 256, 4095)
    ELSE ISqrtBS(n, 4096, 46340)

\* the square root of num/den, in units of 1/Resolution
FineSqrt(num, den) ==
    LET f2 == Resolution * Resolution
    IN  ISqrt((num \div den) * f2 + ((num % den) * f2) \div den)

SetMin(S) == CHOOSE m \in S : \A o \in S : m <= o
SetMax(S) == CHOOSE m \in S : \A o \in S : m >= o

(***************************************************************************)
(* The polygon: vertices, edges, bounding box.                             *)
(***************************************************************************)
Xs(vs) == {vs[i][1] : i \in 1..Len(vs)}
Ys(vs) == {vs[i][2] : i \in 1..Len(vs)}

\* segments = vstack((vertices, vertices[0])); starts = [:-1]; ends = [1:]
SegStart(vs, i) == vs[i]
SegEnd(vs, i) == vs[(i % Len(vs)) + 1]

\* matplotlib Path.contains_point (radius 0): crossings of the +X ray with
\* the implicitly closed outline, with the half-open rule on ties
Crosses(px, py, a, b) ==
    LET yflag0 == a[2] >= py
        yflag1 == b[2] >= py
    IN  /\ yflag0 # yflag1
        /\ (((b[2] - py) * (a[1] - b[1]) >= (b[1] - px) * (a[2] - b[2]))
             = yflag1)

ContainsPoint(vs, px, py) ==
    Cardinality({i \in 1..Len(vs) :
                    Crosses(px, py, SegStart(vs, i), SegEnd(vs, i))}) % 2 = 1

\* distance from (px, py) to the segment a-b, as the code computes it:
\* the projection ratio clipped to [0, 1], then the norm of the difference
SegmentDistance(px, py, a, b) ==
    LET ex == b[1] - a[1]
        ey == b[2] - a[2]
        lengths_sq == ex * ex + ey * ey
        dot == (px - a[1]) * ex + (py - a[2]) * ey
        da2 == (px - a[1]) * (px - a[1]) + (py - a[2]) * (py - a[2])
        db2 == (px - b[1]) * (px - b[1]) + (py - b[2]) * (py - b[2])
    IN  IF lengths_sq = 0 THEN FineSqrt(da2, 1)          \* ~valid_edges branch
        ELSE IF dot <= 0 THEN FineSqrt(da2, 1)           \* ratio clipped to 0
        ELSE IF dot >= lengths_sq THEN FineSqrt(db2, 1)  \* ratio clipped to 1
        ELSE FineSqrt(da2 * lengths_sq - dot * dot, lengths_sq)

\* calculate_point_to_edges_distance
calculate_point_to_edges_distance(px, py, vs) ==
    IF ~ContainsPoint(vs, px, py) THEN NegInf
    ELSE SetMin({SegmentDistance(px, py, SegStart(vs, i), SegEnd(vs, i)) :
                    i \in 1..Len(vs)})

\* cell_radius * np.sqrt(2)
HalfDiagonal(r) == FineSqrt(2 * r * r, 1)


(***************************************************************************)
(* The heap: tuples (-max_potential, distance, x, y, cell_radius), ordered *)
(* as Python orders tuples.  Cells of one search have distinct centres, so *)
(* the heap is a set and heappop takes its least tuple.                    *)
(***************************************************************************)
NoCell == <<>>

RECURSIVE TupleLess(_, _, _)
TupleLess(s, t, i) ==
    IF i > Len(s) THEN FALSE
    ELSE IF s[i] < t[i] THEN TRUE
    ELSE IF s[i] > t[i] THEN FALSE
    ELSE TupleLess(s, t, i + 1)

\* a min-heap on max_potential itself: the cell of least upper bound first
HeapTop_LeastBound(q) == CHOOSE c \in q : \A o \in q : o = c \/ TupleLess(o, c, 1)

HeapTop(q) == CHOOSE c \in q : \A o \in q : o = c \/ TupleLess(c, o, 1)

Cell(distance, x, y, r) == <<-(distance + HalfDiagonal(r)), distance, x, y, r>>

MaxPotential(c) == -c[1]
CellDistance(c) == c[2]
CellX(c) == c[3]
CellY(c) == c[4]
CellRadius(c) == c[5]

(***************************************************************************)
(* find_annotation_position_inside_polygon, up to the search loop.         *)
(***************************************************************************)
Width(vs) == SetMax(Xs(vs)) - SetMin(Xs(vs))
Height(vs) == SetMax(Ys(vs)) - SetMin(Ys(vs))

\* cell_size = min(width, height) / 4
CellSize(vs) == Min2(Width(vs), Height(vs)) \div 4
\* cell_radius = cell_size / 2
InitialRadius(vs) == Min2(Width(vs), Height(vs)) \div 8

\* np.arange(lo + cell_radius, hi, cell_size)
Arange(start, stop, step) ==
    {start + k * step : k \in {j \in 0..((stop - start) \div step) :
                                    start + j * step < stop}}

\* the points of the initial grid that contains_points keeps
InsidePoints(vs) ==
    LET r == InitialRadius(vs)
        x_coords == Arange(SetMin(Xs(vs)) + r, SetMax(Xs(vs)), CellSize(vs))
        y_coords == Arange(SetMin(Ys(vs)) + r, SetMax(Ys(vs)), CellSize(vs))
    IN  {p \in x_coords \X y_coords : ContainsPoint(vs, p[1], p[2])}

InitialQueue(vs) ==
    {Cell(calculate_point_to_edges_distance(p[1], p[2], vs), p[1], p[2],
          InitialRadius(vs)) : p \in InsidePoints(vs)}

BBoxX(vs) == SetMin(Xs(vs)) + Width(vs) \div 2
BBoxY(vs) == SetMin(Ys(vs)) + Height(vs) \div 2

\* the state of the search when the while loop is first reached
InitialSearch(vs) ==
    [queue |-> InitialQueue(vs),
     best_distance |-> calculate_point_to_edges_distance(BBoxX(vs), BBoxY(vs), vs),
     best_x |-> BBoxX(vs),
     best_y |-> BBoxY(vs),
     popped |-> NoCell,
     stop |-> FALSE]

(***************************************************************************)
(* One iteration of the while loop.                                        *)
(***************************************************************************)
\* max_potential - best_distance <= precision   (best_distance may be -inf)
StopTest(max_potential, best, prec) ==
    best # NegInf /\ max_potential - best <= prec * Resolution

\* distance > best_distance
Better(distance, best) == best = NegInf \/ distance > best

\* new_max_potential > best_distance + precision
WorthPushing(new_max_potential, best, prec) ==
    best = NegInf \/ new_max_potential > best + prec * Resolution

\* cell_radius > precision / 2
LargeEnough(r, prec) == 2 * r > prec

\* a sub-cell as large as its parent
NewCellRadius_NotHalved(r) == r

\* new_cell_radius = cell_radius / 2
NewCellRadius(r) == r \div 2

\* the four sub-cells of the cell (x, y, r) that are pushed
SubCells(vs, x, y, r, best, prec) ==
    LET nr == NewCellRadius(r)
        centres == {<<x - nr, y - nr>>, <<x + nr, y - nr>>,
                    <<x - nr, y + nr>>, <<x + nr, y + nr>>}
        inside == {p \in centres :
                     calculate_point_to_edges_distance(p[1], p[2], vs) # NegInf}
        cells == {Cell(calculate_point_to_edges_distance(p[1], p[2], vs),
                       p[1], p[2], nr) : p \in inside}
    IN  {c \in cells : WorthPushing(MaxPotential(c), best, prec)}

SearchStep(vs, prec, st) ==
    LET c == HeapTop(st.queue)
        rest == st.queue \ {c}
    IN  IF StopTest(MaxPotential(c), st.best_distance, prec)
        THEN [st EXCEPT !.queue = rest, !.popped = c, !.stop = TRUE]
        ELSE LET improve == Better(CellDistance(c), st.best_distance)
                 nbest == IF improve THEN CellDistance(c) ELSE st.best_distance
                 nx == IF improve THEN CellX(c) ELSE st.best_x
                 ny == IF improve THEN CellY(c) ELSE st.best_y
                 pushed == IF LargeEnough(CellRadius(c), prec)
                           THEN SubCells(vs, CellX(c), CellY(c), CellRadius(c),
                                         nbest, prec)
                           ELSE {}
             IN  [queue |-> rest \cup pushed,
                  best_distance |-> nbest,
                  best_x |-> nx,
                  best_y |-> ny,
                  popped |-> c,
                  stop |-> FALSE]

\* the inputs on which the code raises before the loop: np.min of an empty
\* array, np.arange with a zero step
RaisesBeforeLoop(vs) ==
    IF Len(vs) = 0 THEN TRUE ELSE (Width(vs) = 0 \/ Height(vs) = 0)

Raised == [kind |-> "raise"]
Point(x, y) == [kind |-> "point", x |-> x, y |-> y]
NotCalled == [kind |-> "pending"]


(***************************************************************************)
(* The polygons the search is run on.  s is the side of the bounding box,  *)
(* t the thickness of a thin arm.                                          *)
(***************************************************************************)
Square(s) == <<<<0, 0>>, <<0, s>>, <<s, s>>, <<s, 0>>>>

ClosedSquare(s) == <<<<0, 0>>, <<0, s>>, <<s, s>>, <<s, 0>>, <<0, 0>>>>

Rect(w, h) == <<<<0, 0>>, <<0, h>>, <<w, h>>, <<w, 0>>>>

Wide(s) == Rect(2 * s, s)

Diamond(s) == <<<<s \div 2, 0>>, <<s, s \div 2>>, <<s \div 2, s>>, <<0, s \div 2>>>>

\* the concave polygon of the unit tests, scaled
Concave(s) ==
    LET q == s \div 4
    IN  <<<<0, 0>>, <<0, s>>, <<s, s>>, <<s, 3 * q>>, <<q, 3 * q>>,
          <<q, q>>, <<s, q>>, <<s, 0>>>>

\* an L of two thin arms along the bottom and the right side of the box
ThinL(s, t) ==
    <<<<0, 0>>, <<s, 0>>, <<s, s>>, <<s - t, s>>, <<s - t, t>>, <<0, t>>>>

\* a thin bar through the grid points, a thin mast, and a square blob of
\* side 3s/16 hanging between the grid points
Flag(s) ==
    LET e == s \div 32
        a == 5 * e      \* blob from a to b
        b == 11 * e
        lo == 19 * e    \* bar from lo to hi
        hi == 21 * e
    IN  <<<<0, lo>>, <<8 * e - e, lo>>, <<8 * e - e, b>>, <<a, b>>, <<a, a>>,
          <<b, a>>, <<b, b>>, <<8 * e + e, b>>, <<8 * e + e, lo>>,
          <<s - 2 * e, lo>>, <<s - 2 * e, 0>>, <<s, 0>>, <<s, s>>,
          <<s - 2 * e, s>>, <<s - 2 * e, hi>>, <<0, hi>>>>

\* the self-intersecting "cross" of the unit tests
Cross(s) == <<<<0, 0>>, <<s, s>>, <<s, 0>>, <<0, s>>>>

Triangle(s) == <<<<0, 0>>, <<s, 0>>, <<0, s>>>>

\* the three collinear vertices of the unit tests
Collinear(s) == <<<<0, 0>>, <<s \div 2, s \div 2>>, <<s, s>>>>

\* four vertices on one horizontal line
Flat(s) == <<<<0, 0>>, <<s, 0>>, <<s \div 2, 0>>, <<s \div 4, 0>>>>

Empty == <<>>

Polygons ==
    {Empty}
    \cup {Square(s) : s \in Sizes} \cup {ClosedSquare(s) : s \in Sizes}
    \cup {Wide(s) : s \in Sizes} \cup {Diamond(s) : s \in Sizes}
    \cup {Concave(s) : s \in Sizes} \cup {Flag(s) : s \in Sizes}
    \cup {ThinL(s, 2 * t) : s \in Sizes, t \in 1..MaxThick}
    \cup {Cross(s) : s \in Sizes} \cup {Triangle(s) : s \in Sizes}
    \cup {Collinear(s) : s \in Sizes} \cup {Flat(s) : s \in Sizes}

\* every radius the search halves is even, so that cell centres are whole
RECURSIVE HalvesExactly(_, _)
HalvesExactly(r, prec) ==
    IF LargeEnough(r, prec) THEN r % 2 = 0 /\ HalvesExactly(r \div 2, prec)
    ELSE TRUE

Representable(vs, prec) ==
    IF RaisesBeforeLoop(vs) THEN TRUE
    ELSE /\ Min2(Width(vs), Height(vs)) % 8 = 0
         /\ Width(vs) % 2 = 0
         /\ Height(vs) % 2 = 0
         /\ HalvesExactly(InitialRadius(vs), prec)

\* no plane has been built
NoPlane == [kind |-> "none"]

\* no plot is under way
NoPlot ==
    /\ regions_meshes = <<>>
    /\ root = [name |-> "root", loops |-> <<>>]
    /\ plane0 = NoPlane
    /\ annotate_regions = [type |-> "bool", value |-> FALSE]
    /\ format = "2D"
    /\ projected = <<>>
    /\ fills = <<>>
    /\ annotations = <<>>
    /\ last_call = "none"

\* no Plane or Slicer call has been made
NoArgs == [op |-> "none"]
NoReturn == [kind |-> "none"]

NoSlicer ==
    /\ plane1 = NoPlane
    /\ coordinates = <<>>
    /\ call_args = NoArgs
    /\ ret = NoReturn

\* no Heatmap has been built: the signature's defaults
NoHeatmap ==
    /\ values = <<>>
    /\ vmin = [type |-> "NoneType"]
    /\ vmax = [type |-> "NoneType"]
    /\ colors = <<>>
    /\ label_regions = FALSE
    /\ self_orientation = [type |-> "str", value |-> "frontal"]
    /\ calls = <<>>

(***************************************************************************)
(* The call of find_annotation_position_inside_polygon as a state machine. *)
(***************************************************************************)
Init ==
    /\ polygon_vertices \in Polygons
    /\ precision \in Precisions
    /\ Representable(polygon_vertices, precision)
    /\ pc = "start"
    /\ cell_queue = {}
    /\ best_distance = NegInf
    /\ best_x = 0
    /\ best_y = 0
    /\ popped = NoCell
    /\ result = NotCalled
    /\ NoPlot
    /\ NoSlicer
    /\ NoHeatmap

\* lines 138-183 on an input the code cannot take
RaiseOnInput ==
    /\ pc = "start"
    /\ RaisesBeforeLoop(polygon_vertices)
    /\ pc' = "raised"
    /\ result' = Raised
    /\ UNCHANGED <<polygon_vertices, precision, cell_queue,
                   best_distance, best_x, best_y, popped>>
    /\ UNCHANGED <<plotVars, slicerVars, heatmapVars>>

\* lines 138-183: bounding box, initial grid, heap, bounding-box centre
Prepare ==
    /\ pc = "start"
    /\ ~RaisesBeforeLoop(polygon_vertices)
    /\ cell_queue' = InitialSearch(polygon_vertices).queue
    /\ best_distance' = InitialSearch(polygon_vertices).best_distance
    /\ best_x' = InitialSearch(polygon_vertices).best_x
    /\ best_y' = InitialSearch(polygon_vertices).best_y
    /\ pc' = "loop"
    /\ UNCHANGED <<polygon_vertices, precision, popped, result>>
    /\ UNCHANGED <<plotVars, slicerVars, heatmapVars>>

\* the search state held in the variables
Search ==
    [queue |-> cell_queue, best_distance |-> best_distance,
     best_x |-> best_x, best_y |-> best_y, popped |-> popped, stop |-> FALSE]

\* one iteration of the while loop that does not break
Refine ==
    /\ pc = "loop"
    /\ cell_queue # {}
    /\ ~SearchStep(polygon_vertices, precision, Search).stop
    /\ cell_queue' = SearchStep(polygon_vertices, precision, Search).queue
    /\ best_distance' =
          SearchStep(polygon_vertices, precision, Search).best_distance
    /\ best_x' = SearchStep(polygon_vertices, precision, Search).best_x
    /\ best_y' = SearchStep(polygon_vertices, precision, Search).best_y
    /\ popped' = SearchStep(polygon_vertices, precision, Search).popped
    /\ UNCHANGED <<polygon_vertices, precision, pc, result>>
    /\ UNCHANGED <<plotVars, slicerVars, heatmapVars>>

\* the iteration that breaks, and the return
BreakAndReturn ==
    /\ pc = "loop"
    /\ cell_queue # {}
    /\ SearchStep(polygon_vertices, precision, Search).stop
    /\ cell_queue' = SearchStep(polygon_vertices, precision, Search).queue
    /\ popped' = SearchStep(polygon_vertices, precision, Search).popped
    /\ pc' = "done"
    /\ result' = Point(best_x, best_y)
    /\ UNCHANGED <<polygon_vertices, precision, best_distance, best_x, best_y>>
    /\ UNCHANGED <<plotVars, slicerVars, heatmapVars>>

\* the loop condition fails on an empty heap, and the return
ExhaustAndReturn ==
    /\ pc = "loop"
    /\ cell_queue = {}
    /\ pc' = "done"
    /\ result' = Point(best_x, best_y)
    /\ UNCHANGED <<polygon_vertices, precision, cell_queue,
                   best_distance, best_x, best_y, popped>>
    /\ UNCHANGED <<plotVars, slicerVars, heatmapVars>>

Next ==
    \/ RaiseOnInput
    \/ Prepare
    \/ Refine
    \/ BreakAndReturn
    \/ ExhaustAndReturn

Spec == Init /\ [][Next]_vars

\* The control skeleton of Next: which position follows which, and which
\* cell is popped.  Every step of Next is a Step that changes <<pc, popped>>
\* (a popped cell never returns to the heap), and a Step is possible exactly
\* when Next is, so fairness of Step is fairness of Next.
Step ==
    \/ /\ pc = "start"
       /\ pc' \in {"loop", "raised"}
       /\ popped' = popped
    \/ /\ pc = "loop"
       /\ cell_queue = {}
       /\ pc' = "done"
       /\ popped' = popped
    \/ /\ pc = "loop"
       /\ cell_queue # {}
       /\ pc' \in {"loop", "done"}
       /\ popped' = HeapTop(cell_queue)

\* the call is single-threaded and synchronous: it keeps executing until
\* it returns or raises
LiveSpec == Init /\ [][Next]_vars /\ WF_<<pc, popped>>(Step)

\* halving never leaves the whole ticks
ExactCells ==
    \A c \in cell_queue :
        LargeEnough(CellRadius(c), precision) => CellRadius(c) % 2 = 0


(***************************************************************************)
(* Plane geometry the properties are stated in (exact, integer).           *)
(***************************************************************************)
\* the outline without a repeated closing vertex
Ring(vs) ==
    IF Len(vs) >= 2 /\ vs[1] = vs[Len(vs)] THEN SubSeq(vs, 1, Len(vs) - 1)
    ELSE vs

CrossProduct(a, b, c) ==
    (b[1] - a[1]) * (c[2] - a[2]) - (b[2] - a[2]) * (c[1] - a[1])

Sign(n) == IF n > 0 THEN 1 ELSE IF n < 0 THEN -1 ELSE 0

\* c lies on the closed segment a-b
OnSegment(a, b, c) ==
    /\ CrossProduct(a, b, c) = 0
    /\ Min2(a[1], b[1]) <= c[1] /\ c[1] <= -Min2(-a[1], -b[1])
    /\ Min2(a[2], b[2]) <= c[2] /\ c[2] <= -Min2(-a[2], -b[2])

SegmentsMeet(a, b, c, d) ==
    \/ /\ Sign(CrossProduct(a, b, c)) * Sign(CrossProduct(a, b, d)) < 0
       /\ Sign(CrossProduct(c, d, a)) * Sign(CrossProduct(c, d, b)) < 0
    \/ OnSegment(a, b, c) \/ OnSegment(a, b, d)
    \/ OnSegment(c, d, a) \/ OnSegment(c, d, b)

\* twice the signed area of the outline
SignedArea2(vs) ==
    LET RECURSIVE Sum(_)
        Sum(i) == IF i = 0 THEN 0
                  ELSE Sum(i - 1) + SegStart(vs, i)[1] * SegEnd(vs, i)[2]
                                  - SegStart(vs, i)[2] * SegEnd(vs, i)[1]
    IN  Sum(Len(vs))

\* a simple polygon: consecutive edges meet only at their common vertex,
\* other edges do not meet at all
IsSimple(vs) ==
    LET r == Ring(vs)
        n == Len(r)
    IN  /\ n >= 3
        /\ \A i \in 1..n : SegStart(r, i) # SegEnd(r, i)
        /\ \A i \in 1..n : \A j \in (i + 1)..n :
              LET a == SegStart(r, i)  b == SegEnd(r, i)
                  c == SegStart(r, j)  d == SegEnd(r, j)
              IN  IF j = i + 1
                  THEN ~OnSegment(a, b, d) /\ ~OnSegment(c, d, a)
                  ELSE IF i = 1 /\ j = n
                  THEN ~OnSegment(a, b, c) /\ ~OnSegment(c, d, b)
                  ELSE ~SegmentsMeet(a, b, c, d)

OnBoundary(vs, px, py) ==
    \E i \in 1..Len(vs) : OnSegment(SegStart(vs, i), SegEnd(vs, i), <<px, py>>)

\* odd number of proper crossings of the +X ray, for points off the boundary
StrictlyInside(vs, px, py) ==
    /\ ~OnBoundary(vs, px, py)
    /\ Cardinality({i \in 1..Len(vs) :
          LET a == SegStart(vs, i)
              b == SegEnd(vs, i)
          IN  /\ (a[2] > py) # (b[2] > py)
              /\ IF b[2] > a[2] THEN CrossProduct(a, b, <<px, py>>) > 0
                 ELSE CrossProduct(a, b, <<px, py>>) < 0}) % 2 = 1

\* distance to the nearest edge, NegInf for a point not strictly inside
BoundaryDistance(vs, px, py) ==
    IF ~StrictlyInside(vs, px, py) THEN NegInf
    ELSE SetMin({SegmentDistance(px, py, SegStart(vs, i), SegEnd(vs, i)) :
                    i \in 1..Len(vs)})

SamplePoints(vs) ==
    {p \in {SetMin(Xs(vs)) + SampleStep * i :
                i \in 0..(Width(vs) \div SampleStep)}
           \X {SetMin(Ys(vs)) + SampleStep * j :
                j \in 0..(Height(vs) \div SampleStep)} :
        StrictlyInside(vs, p[1], p[2])}

Returned == pc = "done" \/ pc = "raised"

(***************************************************************************)
(* Properties of find_annotation_position_inside_polygon.                  *)
(***************************************************************************)
\* C1: for a simple polygon of positive area with at least 4 vertices the
\* call returns a point strictly inside the polygon, neither on nor outside
\* its boundary.
C1_ReturnsInteriorPoint ==
    (/\ Returned
     /\ Len(polygon_vertices) >= 4
     /\ IsSimple(polygon_vertices)
     /\ SignedArea2(polygon_vertices) # 0)
    => /\ result.kind = "point"
       /\ StrictlyInside(polygon_vertices, result.x, result.y)

\* C2: with fewer than 4 vertices (3 vertices, or none) the call returns
\* None: it neither raises nor returns a point.
C2_NoneBelowFourVertices ==
    (Returned /\ Len(polygon_vertices) < 4) => result.kind = "None"

\* C3: for a simple polygon the returned point is, up to the precision, as
\* far from the nearest edge as any point inside the polygon (here: as any
\* sample point; one unit of Resolution is allowed for rounding).
C3_PoleWithinPrecision ==
    (pc = "done" /\ IsSimple(polygon_vertices))
    => LET d == BoundaryDistance(polygon_vertices, result.x, result.y)
       IN  /\ d # NegInf
           /\ \A q \in SamplePoints(polygon_vertices) :
                 BoundaryDistance(polygon_vertices, q[1], q[2])
                   <= d + precision * Resolution + 1


\* C4: when the bounding box has non-zero width and height the refinement
\* loop terminates: every cell pushed by the loop has half the radius of the
\* cell just popped, a popped cell of radius <= precision/2 pushes nothing,
\* and the call eventually returns.
C4_LoopTerminates ==
    /\ [][pc = "loop" =>
            \A c \in cell_queue' \ cell_queue :
                /\ 2 * CellRadius(c) = CellRadius(popped')
                /\ 2 * CellRadius(popped') > precision]_vars
    /\ (pc = "start" /\ ~RaisesBeforeLoop(polygon_vertices)) ~> (pc = "done")

\* the loop has subdivided twice and the call has returned
C4_Witness ==
    /\ pc = "done"
    /\ popped # NoCell
    /\ 4 * CellRadius(popped) <= InitialRadius(polygon_vertices)


(***************************************************************************)
(* find_annotation_position_inside_polygon as a function: the loop run to  *)
(* its end.                                                                *)
(***************************************************************************)
RECURSIVE RunSearch(_, _, _)
RunSearch(vs, prec, st) ==
    IF st.queue = {} THEN Point(st.best_x, st.best_y)
    ELSE IF SearchStep(vs, prec, st).stop THEN Point(st.best_x, st.best_y)
    ELSE RunSearch(vs, prec, SearchStep(vs, prec, st))

find_annotation_position_inside_polygon(vs, prec) ==
    IF RaisesBeforeLoop(vs) THEN Raised
    ELSE RunSearch(vs, prec, InitialSearch(vs))

(***************************************************************************)
(* Python values, str() and insertion-ordered dicts.                       *)
(***************************************************************************)
PyNone == [type |-> "NoneType"]
PyBool(b) == [type |-> "bool", value |-> b]
PyInt(n) == [type |-> "int", value |-> n]
\* a float with one decimal digit
PyFloat(whole, tenths) == [type |-> "float", whole |-> whole, tenths |-> tenths]
PyStr(str) == [type |-> "str", value |-> str]
PyList(items) == [type |-> "list", value |-> items]
PySet(items) == [type |-> "set", value |-> items]
\* a dict is the sequence of its <<key, value>> items, keys distinct
PyDict(items) == [type |-> "dict", value |-> items]

\* str(value)
Str(v) ==
    CASE v.type = "str" -> v.value
      [] v.type = "NoneType" -> "None"
      [] v.type = "bool" -> IF v.value THEN "True" ELSE "False"
      [] v.type = "int" -> ToString(v.value)
      [] v.type = "float" -> ToString(v.whole) \o "." \o ToString(v.tenths)

DictKeys(d) == [i \in 1..Len(d) |-> d[i][1]]

HasKey(d, k) == \E i \in 1..Len(d) : d[i][1] = k

\* d[k]
DictGet(d, k) == d[CHOOSE i \in 1..Len(d) : d[i][1] = k][2]

\* d[k] = v: a new key goes last, a known key keeps its place
DictSet(d, k, v) ==
    IF HasKey(d, k)
    THEN [i \in 1..Len(d) |-> IF d[i][1] = k THEN <<k, v>> ELSE d[i]]
    ELSE Append(d, <<k, v>>)

\* name in list
InList(items, x) == \E i \in 1..Len(items) : items[i] = x

(***************************************************************************)
(* Plane: the projection and the cross-sections of the actors.             *)
(***************************************************************************)
Dot3(a, b) == a[1] * b[1] + a[2] * b[2] + a[3] * b[3]
Sub3(a, b) == <<a[1] - b[1], a[2] - b[2], a[3] - b[3]>>
Cross3(a, b) ==
    <<a[2] * b[3] - a[3] * b[2], a[3] * b[1] - a[1] * b[3],
      a[1] * b[2] - a[2] * b[1]>>

\* Direction vectors are kept in units of 1/Unit: the common denominator of
\* the unit vectors of the model, whose inputs have norms dividing 5 * 13.
\* Positions and plane coordinates are whole ticks.
Unit == 5 * 13

\* np.array([x, y, z]) used as a direction
Vec(x, y, z) == <<x * Unit, y * Unit, z * Unit>>

\* the vector itself
Neg3_Same(a) == a

\* -a
Neg3(a) == <<-a[1], -a[2], -a[3]>>
Add3(a, b) == <<a[1] + b[1], a[2] + b[2], a[3] + b[3]>>

\* the product of two numbers kept in units of 1/Unit
DotU(a, b) == Dot3(a, b) \div Unit

\* the cross product taken the other way round
CrossU_Reversed(a, b) ==
    <<Cross3(b, a)[1] \div Unit, Cross3(b, a)[2] \div Unit,
      Cross3(b, a)[3] \div Unit>>

\* np.cross
CrossU(a, b) ==
    <<Cross3(a, b)[1] \div Unit, Cross3(a, b)[2] \div Unit,
      Cross3(a, b)[3] \div Unit>>

\* a position vector times a number: direction * scalar, in ticks
Scaled(a, t) == <<(a[1] * t) \div Unit, (a[2] * t) \div Unit, (a[3] * t) \div Unit>>

\* np.linalg.norm
Norm(a) == ISqrt(Dot3(a, a))

\* the vector of nan a division by a zero norm gives, told apart from every
\* vector of numbers
NaN3 == <<>>

\* the vector left as it is
Normalized_Raw(a) == a

\* a / np.linalg.norm(a)
Normalized(a) ==
    IF Norm(a) = 0 THEN NaN3
    ELSE <<(a[1] * Unit) \div Norm(a), (a[2] * Unit) \div Norm(a),
           (a[3] * Unit) \div Norm(a)>>

Raise(error) == [kind |-> "raise", error |-> error]

\* np.isclose(np.dot(self.u, self.v), 0): false on nan; the unit vectors of
\* the model have a dot product that is 0 or at least 1/Unit^2 in size, far
\* above the tolerance 1e-8
IsCloseToZero(a, b) ==
    IF a = NaN3 \/ b = NaN3 THEN FALSE ELSE Dot3(a, b) = 0

\* Plane.__init__
Plane(origin, u, v) ==
    IF ~IsCloseToZero(Normalized(u), Normalized(v)) THEN Raise("AssertionError")
    ELSE [kind |-> "plane", center |-> origin,
          u |-> Normalized(u), v |-> Normalized(v),
          normal |-> CrossU(Normalized(u), Normalized(v)),
          M |-> <<u, v>>]

\* bases along the positive axes
NamedBasis_Positive(orientation) ==
    CASE orientation = "frontal" -> <<Vec(0, 0, 1), Vec(0, 1, 0)>>
      [] orientation = "sagittal" -> <<Vec(1, 0, 0), Vec(0, 1, 0)>>
      [] OTHER -> <<Vec(0, 0, 1), Vec(1, 0, 0)>>

\* the bases Slicer.__init__ gives plane0 for the named orientations
NamedBasis(orientation) ==
    CASE orientation = "frontal" -> <<Vec(0, 0, -1), Vec(0, 1, 0)>>
      [] orientation = "sagittal" -> <<Vec(1, 0, 0), Vec(0, 1, 0)>>
      [] OTHER -> <<Vec(0, 0, -1), Vec(-1, 0, 0)>>

\* Plane.P3toP2: (ps - center) @ M, M with columns M[1], M[2]
P3toP2(plane, ps) ==
    [i \in 1..Len(ps) |->
        <<DotU(Sub3(ps[i], plane.center), plane.M[1]),
          DotU(Sub3(ps[i], plane.center), plane.M[2])>>]

\* the point of the plane with in-plane coordinates p
Lift(plane, p) ==
    Add3(plane.center, Add3(Scaled(plane.u, p[1]), Scaled(plane.v, p[2])))

\* intersectWith + split + join: the closed outlines where the plane cuts
\* the actor's mesh, one ordered 3D point sequence per connected component
IntersectionPieces(plane, actor) ==
    [n \in 1..Len(actor.loops) |->
        [j \in 1..Len(actor.loops[n]) |-> Lift(plane, actor.loops[n][j])]]

\* intersection.vertices.shape[0]
RECURSIVE NumVertices(_, _)
NumVertices(pieces, n) ==
    IF n = 0 THEN 0 ELSE Len(pieces[n]) + NumVertices(pieces, n - 1)

\* a key that counts the pieces from 1
PieceKey_FromOne(name, piece_n) == name \o "_segment_" \o ToString(piece_n + 1)

\* actor.name + f"_segment_{piece_n}"
PieceKey(name, piece_n) == name \o "_segment_" \o ToString(piece_n)

\* for piece_n, piece in enumerate(pieces): projected[key] = P3toP2(points)
RECURSIVE ProjectPieces(_, _, _, _, _)
ProjectPieces(plane, name, pieces, n, d) ==
    IF n > Len(pieces) THEN d
    ELSE ProjectPieces(plane, name, pieces, n + 1,
            DictSet(d, PieceKey(name, n - 1), P3toP2(plane, pieces[n])))

\* for actor in actors: skip an empty intersection, project the pieces
RECURSIVE ProjectActors(_, _, _, _)
ProjectActors(plane, actors, i, d) ==
    IF i > Len(actors) THEN d
    ELSE ProjectActors(plane, actors, i + 1,
            IF NumVertices(IntersectionPieces(plane, actors[i]),
                           Len(actors[i].loops)) = 0
            THEN d
            ELSE ProjectPieces(plane, actors[i].name,
                               IntersectionPieces(plane, actors[i]), 1, d))

\* Plane.get_projections
get_projections(plane, actors) == ProjectActors(plane, actors, 1, <<>>)

\* Slicer.get_structures_slice_coords(regions, root)[0]
StructuresSliceProjected(plane, regions, rootActor) ==
    get_projections(plane, regions \o <<rootActor>>)

\* regions += [root]: root is appended to the list the caller passed
CallersRegions_Extended(regions, rootActor) == regions \o <<rootActor>>

\* the caller's list after get_structures_slice_coords: regions = regions +
\* [root] binds a new list to the local name
CallersRegions(regions, rootActor) == regions


(***************************************************************************)
(* Heatmap.plot_subplot: the fills and the annotations.  In the plot one   *)
(* tick is 0.0125 plot units, so that the precision 0.1 is 8 ticks.        *)
(***************************************************************************)
\* precision=0.1
AnnotatePrecision == 8

\* the first index at which sep occurs in str, 0 if it does not
RECURSIVE Find(_, _, _)
Find(str, sep, i) ==
    IF i + Len(sep) - 1 > Len(str) THEN 0
    ELSE IF SubSeq(str, i, i + Len(sep) - 1) = sep THEN i
    ELSE Find(str, sep, i + 1)

\* name, segment_nr = r.split("_segment_")  (region names hold no separator)
SplitKey(r) ==
    LET i == Find(r, "_segment_", 1)
    IN  <<SubSeq(r, 1, i - 1), SubSeq(r, i + Len("_segment_"), Len(r))>>

\* np.dot(a, np.roll(b, 1))
RECURSIVE DotRoll(_, _, _)
DotRoll(a, b, i) ==
    IF i = 0 THEN 0
    ELSE a[i] * b[IF i = 1 THEN Len(b) ELSE i - 1] + DotRoll(a, b, i - 1)

\* twice the area: np.abs(np.dot(x, np.roll(y, 1)) - np.dot(y, np.roll(x, 1)))
Area2(coords) ==
    LET x == [i \in 1..Len(coords) |-> coords[i][1]]
        y == [i \in 1..Len(coords) |-> coords[i][2]]
    IN  Abs(DotRoll(x, y, Len(coords)) - DotRoll(y, x, Len(coords)))

\* the segments list built from the projected dict
Segments(proj) ==
    [i \in 1..Len(proj) |->
        [name |-> SplitKey(proj[i][1])[1],
         segment_nr |-> SplitKey(proj[i][1])[2],
         coords |-> proj[i][2],
         area2 |-> Area2(proj[i][2])]]

\* where a stable descending sort puts seg among the sorted ones
InsertDescending(sorted, seg) ==
    LET k == Cardinality({i \in 1..Len(sorted) : sorted[i].area2 >= seg.area2})
    IN  SubSeq(sorted, 1, k) \o <<seg>> \o SubSeq(sorted, k + 1, Len(sorted))

RECURSIVE SortPrefix(_, _)
SortPrefix(segs, n) ==
    IF n = 0 THEN <<>> ELSE InsertDescending(SortPrefix(segs, n - 1), segs[n])

\* the segments left in the order of the dict
SortByArea_Unsorted(segs) == segs

\* segments.sort(key=lambda s: s["area"], reverse=True)
SortByArea(segs) == SortPrefix(segs, Len(segs))

\* the keyword arguments of ax.fill that depend on the segment
FillCall(seg) ==
    [name |-> seg.name, segment_nr |-> seg.segment_nr, coords |-> seg.coords,
     label |-> IF seg.segment_nr = "0" /\ seg.name # "root"
               THEN PyStr(seg.name) ELSE PyNone,
     zorder |-> IF seg.name = "root" THEN PyInt(-1) ELSE PyNone,
     alpha |-> IF seg.name = "root" THEN PyFloat(0, 3) ELSE PyNone]

\* any bool selects every region
ShouldAnnotate_AnyBool(ar, name) ==
    \/ ar.type = "bool"
    \/ ar.type = "list" /\ InList(ar.value, name)
    \/ ar.type = "dict" /\ HasKey(ar.value, name)

\* any list selects every region
ShouldAnnotate_AnyList(ar, name) ==
    \/ ar.type = "bool" /\ ar.value
    \/ ar.type = "list"
    \/ ar.type = "dict" /\ HasKey(ar.value, name)

\* should_annotate
ShouldAnnotate(ar, name) ==
    \/ ar.type = "bool" /\ ar.value
    \/ ar.type = "list" /\ InList(ar.value, name)
    \/ ar.type = "dict" /\ HasKey(ar.value, name)

\* the root outline is annotated like any region
Annotates_RootToo(ar, fmt, name) == ShouldAnnotate(ar, name) /\ fmt = "2D"

\* if should_annotate and self.format == "2D": if name != "root":
Annotates(ar, fmt, name) ==
    ShouldAnnotate(ar, name) /\ fmt = "2D" /\ name # "root"

\* the region name whatever annotate_regions is
DisplayText_Name(ar, name) == name

\* display_text
DisplayText(ar, name) ==
    IF ar.type = "dict" THEN Str(DictGet(ar.value, name)) ELSE name

AnnotateCall(ar, seg, xy) ==
    [text |-> DisplayText(ar, seg.name), xy |-> <<xy.x, xy.y>>,
     name |-> seg.name, segment_nr |-> seg.segment_nr]

\* for segment in segments: fill, then annotate; an exception ends the loop
RECURSIVE Draw(_, _, _, _, _)
Draw(ar, fmt, segs, i, acc) ==
    IF i > Len(segs) THEN acc
    ELSE LET filled == [acc EXCEPT !.fills = Append(@, FillCall(segs[i]))]
         IN  IF ~Annotates(ar, fmt, segs[i].name)
             THEN Draw(ar, fmt, segs, i + 1, filled)
             ELSE LET xy == find_annotation_position_inside_polygon(
                                segs[i].coords, AnnotatePrecision)
                  IN  IF xy = Raised THEN [filled EXCEPT !.raised = TRUE]
                      ELSE Draw(ar, fmt, segs, i + 1,
                                [filled EXCEPT !.annotations =
                                    Append(@, AnnotateCall(ar, segs[i], xy))])

\* plot_subplot up to the colorbar
PlotSegments(ar, fmt, proj) ==
    Draw(ar, fmt, SortByArea(Segments(proj)), 1,
         [fills |-> <<>>, annotations |-> <<>>, raised |-> FALSE])

\* str.strip() of a name: the blanks at both ends are dropped
RECURSIVE StripBlanks(_)
StripBlanks(str) ==
    IF Len(str) = 0 THEN str
    ELSE IF SubSeq(str, 1, 1) = " " THEN StripBlanks(SubSeq(str, 2, Len(str)))
    ELSE IF SubSeq(str, Len(str), Len(str)) = " "
    THEN StripBlanks(SubSeq(str, 1, Len(str) - 1))
    ELSE str

\* lines 626-652: the calls on the figure and on the colorbar
ColorbarCalls(show_cbar, lab, cbar_label, vals, lo, hi) ==
    IF ~show_cbar THEN <<>>
    ELSE <<[op |-> "colorbar",
            norm |-> IF lab THEN [type |-> "NoneType"]
                     ELSE [type |-> "Normalize", vmin |-> lo, vmax |-> hi],
            lut |-> IF lab THEN Len(vals) ELSE 0]>>
         \o (IF cbar_label.type # "NoneType"
             THEN <<[op |-> "set_label", label |-> cbar_label]>> ELSE <<>>)
         \o (IF lab
             THEN <<[op |-> "set_yticklabels",
                     labels |-> [i \in 1..Len(vals) |-> StripBlanks(vals[i][1])]]>>
             ELSE <<>>)

\* what plot_subplot leaves behind: the caller's regions list, the
\* projected dict, the calls on the axes, and the calls on the colorbar
\* when no exception ended the drawing loop
PlotOutcome(regions, proj, drawn, cbar) ==
    CHOOSE outcome \in
        {[regions |-> regions,
          projected |-> proj,
          fills |-> d.fills,
          annotations |-> d.annotations,
          raised |-> d.raised,
          calls |-> IF d.raised THEN <<>> ELSE cbar] : d \in {drawn}} : TRUE

\* plot_subplot(fig, ax, cbar_label=cbar_label, show_cbar=show_cbar)
plot_subplot(p0, regions, rootActor, ar, fmt, lab, vals, lo, hi, bar, text) ==
    CHOOSE outcome \in
        {PlotOutcome(CallersRegions(regions, rootActor), proj,
                     PlotSegments(ar, fmt, proj),
                     ColorbarCalls(bar, lab, text, vals, lo, hi)) :
            proj \in {StructuresSliceProjected(p0, regions, rootActor)}} : TRUE


(***************************************************************************)
(* The plots the model draws.                                              *)
(***************************************************************************)
\* an outline of area 256 * n square ticks
Strip(n) == Rect(32, 8 * n)

Outlines == {Strip(10), Strip(3), Strip(7)}

\* the pieces of one actor are different outlines
OutlineSeqs ==
    {l \in UNION {[1..k -> Outlines] : k \in 0..MaxPieces} :
        \A i, j \in 1..Len(l) : l[i] = l[j] => i = j}

Actor(name, loops) == [name |-> name, loops |-> loops]

RegionLists ==
    {<<Actor("TH", l)>> : l \in OutlineSeqs}
    \cup {<<Actor("TH", l), Actor("RSP", m)>> :
            l \in OutlineSeqs, m \in {<<>>, <<Strip(7)>>}}
    \cup {<<Actor("RSP", <<Strip(7)>>), Actor("TH", l)>> :
            l \in {<<>>} \cup {<<o>> : o \in Outlines}}

RootActors == {Actor("root", <<>>), Actor("root", <<Square(32)>>)}

AnnotateOptions ==
    {PyBool(TRUE), PyBool(FALSE), PyNone, PyList(<<>>), PyDict(<<>>),
     PyList(<<"TH">>), PyList(<<"root", "RSP">>), PyList(<<"SS", "TH">>),
     PySet({"TH"}),
     PyDict(<<<<"TH", PyStr("Thalamus")>>, <<"RSP", PyFloat(0, 5)>>>>),
     PyDict(<<<<"TH", PyInt(123)>>, <<"VIS", PyBool(TRUE)>>>>),
     PyDict(<<<<"RSP", PyNone>>, <<"TH", PyBool(TRUE)>>>>),
     PyDict(<<<<"root", PyStr("outline")>>, <<"RSP", PyInt(41)>>>>)}

Planes ==
    {Plane(<<40, 24, -16>>, NamedBasis(o)[1], NamedBasis(o)[2]) :
        o \in {"frontal", "sagittal", "horizontal"}}

\* no search is under way
NoSearch ==
    /\ polygon_vertices = <<>>
    /\ precision = AnnotatePrecision
    /\ pc = "idle"
    /\ cell_queue = {}
    /\ best_distance = NegInf
    /\ best_x = 0
    /\ best_y = 0
    /\ popped = NoCell
    /\ result = NotCalled

PlotInit ==
    /\ NoSearch
    /\ NoSlicer
    /\ NoHeatmap
    /\ regions_meshes \in RegionLists
    /\ root \in RootActors
    /\ plane0 \in Planes
    /\ annotate_regions \in AnnotateOptions
    /\ format \in {"2D", "3D"}
    /\ projected = <<>>
    /\ fills = <<>>
    /\ annotations = <<>>
    /\ last_call = "none"

\* plane0.get_projections(regions + [root])
GetProjections ==
    /\ projected' = get_projections(plane0, regions_meshes \o <<root>>)
    /\ last_call' = "get_projections"
    /\ UNCHANGED <<regions_meshes, root, plane0, annotate_regions, format,
                   fills, annotations>>
    /\ UNCHANGED <<searchVars, slicerVars, heatmapVars>>

\* plot_subplot on fresh axes, with the keyword arguments left at their
\* defaults (show_cbar=True, cbar_label=None)
PlotSubplot ==
    /\ \E drawn \in {plot_subplot(plane0, regions_meshes, root,
                                    annotate_regions, format, label_regions,
                                    values, vmin, vmax, TRUE,
                                    [type |-> "NoneType"])} :
           /\ regions_meshes' = drawn.regions
           /\ projected' = drawn.projected
           /\ fills' = drawn.fills
           /\ annotations' = drawn.annotations
           /\ calls' = drawn.calls
           /\ last_call' = IF drawn.raised THEN "plot_subplot raised"
                           ELSE "plot_subplot"
    /\ UNCHANGED <<root, plane0, annotate_regions, format>>
    /\ UNCHANGED <<values, vmin, vmax, colors, label_regions,
                   self_orientation>>
    /\ UNCHANGED <<searchVars, slicerVars>>

PlotNext ==
    \/ GetProjections
    \/ PlotSubplot

PlotSpec == PlotInit /\ [][PlotNext]_vars

(***************************************************************************)
(* What the properties of the plot speak about.                            *)
(***************************************************************************)
\* plot_subplot has returned, and nothing was called after it
Plotted == last_call = "plot_subplot"

\* the actors handed to get_projections
AllActors == regions_meshes \o <<root>>

\* the cross-section pieces of the slice: <<region name, piece number>>
PieceIds ==
    UNION {{<<AllActors[i].name, ToString(n - 1)>> :
                n \in 1..Len(AllActors[i].loops)} : i \in 1..Len(AllActors)}

\* the pieces an annotation call was made for
AnnotatedIds ==
    {<<annotations[i].name, annotations[i].segment_nr>> :
        i \in 1..Len(annotations)}

\* no piece is annotated twice
AnnotatedOnce == Len(annotations) = Cardinality(AnnotatedIds)

\* the text of every annotation is the name of its region
TextIsName == \A i \in 1..Len(annotations) : annotations[i].text = annotations[i].name

\* the names a list or a set holds
NamesIn(ar) ==
    IF ar.type = "list" THEN {ar.value[i] : i \in 1..Len(ar.value)}
    ELSE ar.value

\* C5: with annotate_regions = True in 2D format, every segment of every
\* region other than "root" is annotated, once, with the region's own name
\* as text, and no segment of "root" is annotated.
C5_TrueAnnotatesAllButRoot ==
    (Plotted /\ annotate_regions = PyBool(TRUE) /\ format = "2D")
    => /\ AnnotatedIds = {id \in PieceIds : id[1] # "root"}
       /\ AnnotatedOnce
       /\ TextIsName

C5_Witness ==
    /\ Plotted /\ annotate_regions = PyBool(TRUE) /\ format = "2D"
    /\ Len(root.loops) > 0
    /\ \E i \in 1..Len(regions_meshes) : Len(regions_meshes[i].loops) = 2
    /\ Len(annotations) >= 2
    /\ Len(fills) > Len(annotations)

\* C6: with annotate_regions equal to False, None, an empty list or an
\* empty dict, plot_subplot makes no annotation call at all, whatever the
\* format and whatever regions, "root" included, are in the slice.
C6_FalsyAnnotatesNothing ==
    (Plotted /\ annotate_regions \in
                    {PyBool(FALSE), PyNone, PyList(<<>>), PyDict(<<>>)})
    => annotations = <<>>

C6_Witness ==
    /\ Plotted /\ format = "2D"
    /\ annotate_regions \in {PyBool(FALSE), PyNone, PyList(<<>>), PyDict(<<>>)}
    /\ Len(root.loops) > 0
    /\ Len(fills) >= 3
    /\ annotations = <<>>

\* the pieces of the regions other than "root" whose name is in names
PiecesNamed(names) == {id \in PieceIds : id[1] # "root" /\ id[1] \in names}

\* C7 as stated: with annotate_regions a list or a set of names, exactly
\* the segments of the regions named in it and present in the slice are
\* annotated, each with its own name as text, and "root" is not annotated
\* even if it is listed.
C7_ListOrSetAnnotatesNamed ==
    (Plotted /\ format = "2D" /\ annotate_regions.type \in {"list", "set"})
    => /\ AnnotatedIds = PiecesNamed(NamesIn(annotate_regions))
       /\ AnnotatedOnce
       /\ TextIsName

\* C7: in 2D format a list of names annotates exactly the segments of the
\* regions named in it and present in the slice, each with its own name as
\* text, never "root" even if it is listed; a set of names annotates
\* nothing.
C7_ListAnnotatesNamed ==
    /\ (Plotted /\ format = "2D" /\ annotate_regions.type = "list")
       => /\ AnnotatedIds = PiecesNamed(NamesIn(annotate_regions))
          /\ AnnotatedOnce
          /\ TextIsName
    /\ (Plotted /\ annotate_regions.type = "set") => annotations = <<>>

C7_Witness ==
    /\ Plotted /\ format = "2D"
    /\ annotate_regions = PyList(<<"root", "RSP">>)
    /\ Len(root.loops) > 0
    /\ \E i \in 1..Len(regions_meshes) :
          regions_meshes[i].name = "TH" /\ Len(regions_meshes[i].loops) > 0
    /\ Len(annotations) = 1
    /\ annotations[1].text = "RSP"

\* the keys of a dict, as a set
KeysOf(ar) == {ar.value[i][1] : i \in 1..Len(ar.value)}

\* the text of every annotation is str() of the value kept under the name
TextIsStrOfValue ==
    \A i \in 1..Len(annotations) :
        \E k \in 1..Len(annotate_regions.value) :
            /\ annotate_regions.value[k][1] = annotations[i].name
            /\ annotations[i].text = Str(annotate_regions.value[k][2])

\* C8 as stated: with annotate_regions a mapping name -> value, exactly the
\* segments of the keyed regions are annotated, with str(value) as text;
\* regions that are not keys get no annotation.
C8_DictAnnotatesKeyed ==
    (Plotted /\ format = "2D" /\ annotate_regions.type = "dict")
    => /\ AnnotatedIds = {id \in PieceIds : id[1] \in KeysOf(annotate_regions)}
       /\ AnnotatedOnce
       /\ TextIsStrOfValue

\* C8: in 2D format a mapping name -> value annotates exactly the segments
\* of the keyed regions other than "root", with str(value) as text (0.5 ->
\* "0.5", None -> "None", True -> "True"); "root" and the regions that are
\* not keys get no annotation.
C8_DictAnnotatesKeyedButRoot ==
    (Plotted /\ format = "2D" /\ annotate_regions.type = "dict")
    => /\ AnnotatedIds = PiecesNamed(KeysOf(annotate_regions))
       /\ AnnotatedOnce
       /\ TextIsStrOfValue
       /\ \A i \in 1..Len(annotations) :
            /\ annotations[i].name = "RSP"
                 /\ HasKey(annotate_regions.value, "RSP")
                 /\ DictGet(annotate_regions.value, "RSP") = PyFloat(0, 5)
               => annotations[i].text = "0.5"
            /\ annotations[i].name = "RSP"
                 /\ HasKey(annotate_regions.value, "RSP")
                 /\ DictGet(annotate_regions.value, "RSP") = PyNone
               => annotations[i].text = "None"
            /\ annotations[i].name = "TH"
                 /\ HasKey(annotate_regions.value, "TH")
                 /\ DictGet(annotate_regions.value, "TH") = PyBool(TRUE)
               => annotations[i].text = "True"

C8_Witness ==
    /\ Plotted /\ format = "2D"
    /\ annotate_regions =
          PyDict(<<<<"RSP", PyNone>>, <<"TH", PyBool(TRUE)>>>>)
    /\ Len(root.loops) > 0
    /\ \E i, j \in 1..Len(annotations) :
          /\ annotations[i].text = "None" /\ annotations[i].name = "RSP"
          /\ annotations[j].text = "True" /\ annotations[j].name = "TH"

\* sum over i <= n of x_i * y_{i+1} - y_i * x_{i+1}, the loop closed by
\* taking the first vertex after the last
RECURSIVE ShoelaceSum(_, _)
ShoelaceSum(coords, n) ==
    IF n = 0 THEN 0
    ELSE LET p == coords[n]
             q == coords[(n % Len(coords)) + 1]
         IN  p[1] * q[2] - p[2] * q[1] + ShoelaceSum(coords, n - 1)

\* twice the Shoelace area of a closed loop
ShoelaceArea2(coords) == Abs(ShoelaceSum(coords, Len(coords)))

\* twice the areas of the segments, in the order of the fill calls
FilledAreas2 == [i \in 1..Len(fills) |-> ShoelaceArea2(fills[i].coords)]

\* twice the areas of the segments, in the order get_projections gave them
ProjectedAreas2 == [i \in 1..Len(projected) |-> ShoelaceArea2(projected[i][2])]

\* twice the area of an outline of area n units
Units2(n) == 2 * 256 * n

\* C9: plot_subplot fills every segment of the slice once, in order of
\* non-increasing Shoelace area 0.5 * |sum(x_i*y_{i+1} - y_i*x_{i+1})|;
\* segments of areas [10, 3, 7] are filled in the order [10, 7, 3].
C9_FilledByDescendingArea ==
    Plotted
    => /\ \A i \in 1..(Len(fills) - 1) : FilledAreas2[i] >= FilledAreas2[i + 1]
       /\ {<<fills[i].name, fills[i].segment_nr>> : i \in 1..Len(fills)} = PieceIds
       /\ Len(fills) = Cardinality(PieceIds)
       /\ ProjectedAreas2 = <<Units2(10), Units2(3), Units2(7)>>
          => FilledAreas2 = <<Units2(10), Units2(7), Units2(3)>>

C9_Witness ==
    /\ Plotted
    /\ ProjectedAreas2 = <<Units2(10), Units2(3), Units2(7)>>
    /\ FilledAreas2 = <<Units2(10), Units2(7), Units2(3)>>

\* the keys of the projected mapping, in insertion order
ProjectedKeys == [i \in 1..Len(projected) |-> projected[i][1]]

\* "{name}_segment_{i}" for the pieces 0..k-1 of one actor
KeysOfActor(a) ==
    [n \in 1..Len(a.loops) |-> a.name \o "_segment_" \o ToString(n - 1)]

RECURSIVE KeysOfActors(_, _)
KeysOfActors(actors, n) ==
    IF n = 0 THEN <<>>
    ELSE KeysOfActors(actors, n - 1) \o KeysOfActor(actors[n])

\* C10: get_projections returns a mapping whose keys are exactly
\* "{name}_segment_{i}" for each actor cut in k >= 1 pieces and each i in
\* 0..k-1, the indices restarting at 0 for each actor and following the
\* order of its pieces; an actor with an empty intersection contributes no
\* key, and every key carries the name of a supplied actor.
C10_ProjectionKeys ==
    last_call = "get_projections"
    => /\ ProjectedKeys = KeysOfActors(AllActors, Len(AllActors))
       /\ \A i \in 1..Len(AllActors) : \A n \in 1..Len(AllActors[i].loops) :
            /\ HasKey(projected, KeysOfActor(AllActors[i])[n])
            /\ DictGet(projected, KeysOfActor(AllActors[i])[n])
                 = AllActors[i].loops[n]
       /\ \A k \in 1..Len(projected) :
            \E i \in 1..Len(AllActors) :
                /\ Len(AllActors[i].loops) >= 1
                /\ SplitKey(projected[k][1])[1] = AllActors[i].name

C10_Witness ==
    /\ last_call = "get_projections"
    /\ Len(regions_meshes) = 2
    /\ Len(regions_meshes[1].loops) = 2
    /\ Len(regions_meshes[2].loops) = 0
    /\ Len(root.loops) = 1
    /\ ProjectedKeys = <<"TH_segment_0", "TH_segment_1", "root_segment_0">>

(***************************************************************************)
(* Plane.from_norm and Slicer.__init__.                                    *)
(***************************************************************************)
PyTuple(items) == [type |-> "tuple", value |-> items]

Zero3 == <<0, 0, 0>>

\* np.where(norm != 0)[0][0], counted from 1
FirstNonZero(norm) == CHOOSE m \in 1..3 : norm[m] # 0 /\ \A k \in 1..(m - 1) : norm[k] = 0

\* u = zeros(3); u[n] = norm[m]; u[m] = -norm[n]  with n = (m + 1) % 3
FromNormU(norm) ==
    LET m == FirstNonZero(norm)
        n == (m % 3) + 1
    IN  [k \in 1..3 |-> IF k = n THEN norm[m]
                        ELSE IF k = m THEN -norm[n] ELSE 0]

\* Plane.from_norm
from_norm(origin, norm) ==
    IF norm = Zero3 THEN Raise("IndexError")
    ELSE Plane(origin, Normalized(FromNormU(norm)),
               CrossU(Normalized(norm), Normalized(FromNormU(norm))))

NamedOrientations == {"frontal", "sagittal", "horizontal"}

\* a value a step went on with
Ok(value) == [kind |-> "ok", value |-> value]

\* every string names an axis
get_ax_idx_Lenient(orientation) ==
    IF orientation = "frontal" THEN Ok(0)
    ELSE IF orientation = "sagittal" THEN Ok(2)
    ELSE Ok(1)

\* get_ax_idx
get_ax_idx(orientation) ==
    IF orientation = "frontal" THEN Ok(0)
    ELSE IF orientation = "sagittal" THEN Ok(2)
    ELSE IF orientation = "horizontal" THEN Ok(1)
    ELSE Raise("ValueError")

\* position[idx] = value, idx counted from 0
SetCoord(position, idx, value) ==
    [k \in 1..3 |-> IF k = idx + 1 THEN value ELSE position[k]]

\* the position left as it is
FlipZ_Kept(position) == position

\* position[2] = -position[2]
FlipZ(position) == <<position[1], position[2], -position[3]>>

\* the value of a scalar position, in ticks
ScalarValue(position) ==
    IF position.type = "int" THEN position.value ELSE position.whole

\* a scalar position is dropped when the orientation is a vector
ResolvedPosition_ScalarDropped(position, orientation, center_of_mass) ==
    IF position.type = "NoneType" THEN Ok(center_of_mass)
    ELSE IF position.type \in {"int", "float"}
    THEN IF orientation.type = "str"
         THEN IF get_ax_idx(orientation.value).kind = "raise"
              THEN get_ax_idx(orientation.value)
              ELSE Ok(SetCoord(center_of_mass,
                               get_ax_idx(orientation.value).value,
                               ScalarValue(position)))
         ELSE Ok(center_of_mass)
    ELSE Ok(position.value)

\* lines 38-51 of Slicer.__init__: the position before the sign of its
\* third coordinate is changed
ResolvedPosition(position, orientation, center_of_mass) ==
    IF position.type = "NoneType" THEN Ok(center_of_mass)
    ELSE IF position.type \in {"int", "float"}
    THEN IF orientation.type = "str"
         THEN IF get_ax_idx(orientation.value).kind = "raise"
              THEN get_ax_idx(orientation.value)
              ELSE Ok(SetCoord(center_of_mass,
                               get_ax_idx(orientation.value).value,
                               ScalarValue(position)))
         ELSE Raise("ValueError")
    ELSE Ok(position.value)

\* the two planes a Slicer is left with
SlicerOf(p0, p1) == [kind |-> "slicer", plane0 |-> p0, plane1 |-> p1]

\* lines 56-74 of Slicer.__init__: a named orientation
NamedSlicer(pos, orientation, thickness) ==
    IF get_ax_idx(orientation).kind = "raise" THEN get_ax_idx(orientation)
    ELSE LET axidx == get_ax_idx(orientation).value
             p1 == SetCoord(pos, axidx, pos[axidx + 1] + thickness)
             u0 == NamedBasis(orientation)[1]
             v0 == NamedBasis(orientation)[2]
         IN  SlicerOf(Plane(pos, u0, v0), Plane(p1, u0, Neg3(v0)))

\* lines 75-83 of Slicer.__init__: a free vector
FreeSlicer(pos, orientation, thickness) ==
    LET p1 == Add3(pos, Scaled(orientation, thickness))
        pl0 == from_norm(pos, orientation)
        pl1 == from_norm(p1, Neg3(orientation))
    IN  IF pl0.kind = "raise" THEN pl0
        ELSE IF pl1.kind = "raise" THEN pl1
        ELSE SlicerOf(pl0, pl1)

\* Slicer.__init__ with root.center_of_mass() = center_of_mass
Slicer(position, orientation, thickness, center_of_mass) ==
    LET resolved == ResolvedPosition(position, orientation, center_of_mass)
    IN  IF resolved.kind = "raise" THEN resolved
        ELSE IF orientation.type = "str"
        THEN NamedSlicer(FlipZ(resolved.value), orientation.value, thickness)
        ELSE FreeSlicer(FlipZ(resolved.value), orientation.value, thickness)

\* region in k
Contains(str, sub) == Find(str, sub, 1) # 0

\* [v for k, v in projected.items() if region in k]
RECURSIVE ValuesWithKeyContaining(_, _, _)
ValuesWithKeyContaining(proj, region, n) ==
    IF n = 0 THEN <<>>
    ELSE ValuesWithKeyContaining(proj, region, n - 1)
         \o (IF Contains(proj[n][1], region) THEN <<proj[n][2]>> ELSE <<>>)

\* for region in [r.name for r in regions]: coordinates[region] = [...]
RECURSIVE GroupByRegion(_, _, _, _)
GroupByRegion(proj, actors, i, d) ==
    IF i > Len(actors) THEN d
    ELSE GroupByRegion(proj, actors, i + 1,
            DictSet(d, actors[i].name,
                    ValuesWithKeyContaining(proj, actors[i].name, Len(proj))))

\* Slicer.get_structures_slice_coords(regions, root)[1]
StructuresSliceCoordinates(plane, regions, rootActor) ==
    GroupByRegion(StructuresSliceProjected(plane, regions, rootActor),
                  regions \o <<rootActor>>, 1, <<>>)

(***************************************************************************)
(* The inputs of the Plane and Slicer calls.  Every vector has a norm that *)
(* divides Unit, so that every number the calls compute is a whole number  *)
(* of 1/Unit.                                                              *)
(***************************************************************************)
\* a / norm(a) is exact
ExactNormalized(a) ==
    IF a = Zero3 THEN TRUE
    ELSE /\ Norm(a) * Norm(a) = Dot3(a, a)
         /\ \A k \in 1..3 : (a[k] * Unit) % Norm(a) = 0

ExactCross(a, b) == \A k \in 1..3 : Cross3(a, b)[k] % Unit = 0

\* every step of Plane(origin, u, v) is exact
ExactPlane(u, v) ==
    /\ ExactNormalized(u) /\ ExactNormalized(v)
    /\ IsCloseToZero(Normalized(u), Normalized(v))
       => ExactCross(Normalized(u), Normalized(v))

\* every step of from_norm(origin, norm) is exact
ExactFromNorm(norm) ==
    IF norm = Zero3 THEN TRUE
    ELSE /\ ExactNormalized(norm) /\ ExactNormalized(FromNormU(norm))
         /\ ExactCross(Normalized(norm), Normalized(FromNormU(norm)))
         /\ ExactPlane(Normalized(FromNormU(norm)),
                       CrossU(Normalized(norm), Normalized(FromNormU(norm))))

\* the point origin + a * u + b * v is a whole number of ticks
ExactLift(plane, a, b) ==
    \A k \in 1..3 : (plane.u[k] * a) % Unit = 0 /\ (plane.v[k] * b) % Unit = 0

Directions ==
    {Vec(1, 0, 0), Vec(0, 2, 0), Vec(0, 0, -1), Vec(0, 0, 5), Vec(0, -1, 0),
     Vec(3, 4, 0), Vec(-4, 3, 0), Vec(0, 3, 4), Vec(4, 0, 3), Vec(-3, 0, -4),
     Vec(3, 4, 12), Vec(0, -4, 3), Zero3}

Origins == {<<0, 0, 0>>, <<40, 24, -16>>}

\* in-plane coordinates of the projected points
PlaneCoords == {0, 5, -10, Unit}

\* the spacing between the two planes of a Slicer
Thicknesses == {0, 10}

\* root.center_of_mass()
CentersOfMass == {<<40, 24, 16>>}

SlicerPositions ==
    {PyNone, PyInt(90), PyFloat(70, 0), PyTuple(<<10, 20, 30>>)}

SlicerOrientations ==
    {PyStr(o) : o \in NamedOrientations \cup {"coronal", "top"}}
    \cup {PyTuple(d) : d \in {x \in Directions : ExactFromNorm(x)}}

\* outlines whose corners lift to whole ticks on every plane of the model
SliceOutlines == {Rect(Unit, 2 * Unit), Rect(2 * Unit, Unit), Rect(3 * Unit, Unit)}

\* region lists, some with a name that is part of another name
SliceRegionLists ==
    {<<Actor("TH", <<Rect(Unit, 2 * Unit)>>)>>,
     <<Actor("TH", <<Rect(Unit, 2 * Unit)>>),
       Actor("RSP", <<Rect(2 * Unit, Unit), Rect(3 * Unit, Unit)>>)>>,
     <<Actor("VIS", <<Rect(Unit, 2 * Unit)>>),
       Actor("VISp", <<Rect(2 * Unit, Unit)>>)>>,
     <<Actor("VISp", <<Rect(2 * Unit, Unit), Rect(3 * Unit, Unit)>>),
       Actor("VIS", <<>>)>>}

SliceRootActors == {Actor("root", <<>>), Actor("root", <<Rect(3 * Unit, Unit)>>)}

(***************************************************************************)
(* The calls on Plane and Slicer.  One object is built in a run, then used. *)
(***************************************************************************)
SlicerInit ==
    /\ NoSearch
    /\ NoPlot
    /\ NoSlicer
    /\ NoHeatmap

\* Plane(origin, u, v)
NewPlane ==
    /\ last_call = "none"
    /\ \E origin \in Origins, u \in Directions, v \in Directions :
        /\ ExactPlane(u, v)
        /\ ret' = Plane(origin, u, v)
        /\ call_args' = [op |-> "Plane", origin |-> origin, u |-> u, v |-> v]
    /\ last_call' = "Plane"
    /\ UNCHANGED <<regions_meshes, root, plane0, annotate_regions, format,
                   projected, fills, annotations, plane1, coordinates>>
    /\ UNCHANGED <<searchVars, heatmapVars>>

\* Plane.from_norm(origin, norm)
FromNorm ==
    /\ last_call = "none"
    /\ \E origin \in Origins, norm \in Directions :
        /\ ExactFromNorm(norm)
        /\ ret' = from_norm(origin, norm)
        /\ call_args' = [op |-> "from_norm", origin |-> origin, norm |-> norm]
    /\ last_call' = "from_norm"
    /\ UNCHANGED <<regions_meshes, root, plane0, annotate_regions, format,
                   projected, fills, annotations, plane1, coordinates>>
    /\ UNCHANGED <<searchVars, heatmapVars>>

\* plane.P3toP2([plane.center + a * plane.u + b * plane.v])
Project ==
    /\ last_call \in {"Plane", "from_norm"}
    /\ ret.kind = "plane"
    /\ \E a \in PlaneCoords, b \in PlaneCoords :
        /\ ExactLift(ret, a, b)
        /\ ret' = [kind |-> "points",
                   value |-> P3toP2(ret, <<Lift(ret, <<a, b>>)>>)]
        /\ call_args' = [op |-> "P3toP2", plane |-> ret, a |-> a, b |-> b]
    /\ last_call' = "P3toP2"
    /\ UNCHANGED <<regions_meshes, root, plane0, annotate_regions, format,
                   projected, fills, annotations, plane1, coordinates>>
    /\ UNCHANGED <<searchVars, heatmapVars>>

\* Slicer(position, orientation, thickness, root)
NewSlicer ==
    /\ last_call = "none"
    /\ \E position \in SlicerPositions, orientation \in SlicerOrientations,
          thickness \in Thicknesses, center_of_mass \in CentersOfMass :
        /\ ret' = Slicer(position, orientation, thickness, center_of_mass)
        /\ call_args' = [op |-> "Slicer", position |-> position,
                         orientation |-> orientation,
                         thickness |-> thickness,
                         center_of_mass |-> center_of_mass]
    /\ plane0' = IF ret'.kind = "slicer" THEN ret'.plane0 ELSE plane0
    /\ plane1' = IF ret'.kind = "slicer" THEN ret'.plane1 ELSE plane1
    /\ last_call' = "Slicer"
    /\ UNCHANGED <<regions_meshes, root, annotate_regions, format,
                   projected, fills, annotations, coordinates>>
    /\ UNCHANGED <<searchVars, heatmapVars>>

\* slicer.get_structures_slice_coords(regions, root)
GetStructuresSliceCoords ==
    /\ last_call = "Slicer"
    /\ ret.kind = "slicer"
    /\ \E regions \in SliceRegionLists, rootActor \in SliceRootActors :
        /\ regions_meshes' = CallersRegions(regions, rootActor)
        /\ root' = rootActor
        /\ projected' = StructuresSliceProjected(plane0, regions, rootActor)
        /\ coordinates' = StructuresSliceCoordinates(plane0, regions, rootActor)
    /\ last_call' = "get_structures_slice_coords"
    /\ UNCHANGED <<plane0, annotate_regions, format, fills, annotations,
                   plane1, call_args, ret>>
    /\ UNCHANGED <<searchVars, heatmapVars>>

SlicerNext ==
    \/ NewPlane
    \/ FromNorm
    \/ Project
    \/ NewSlicer
    \/ GetStructuresSliceCoords

SlicerSpec == SlicerInit /\ [][SlicerNext]_vars

(***************************************************************************)
(* What the properties of Plane and Slicer speak about.                    *)
(***************************************************************************)
\* the projected polygons whose key is "<name>_segment_<i>", in key order
RECURSIVE OwnSegments(_, _)
OwnSegments(name, n) ==
    IF n = 0 THEN <<>>
    ELSE OwnSegments(name, n - 1)
         \o (IF SplitKey(projected[n][1])[1] = name
             THEN <<projected[n][2]>> ELSE <<>>)

\* C11: the grouped mapping of get_structures_slice_coords has one entry for
\* each name among the supplied regions and root, and the entry of a name r
\* is exactly the list of the projected polygons whose key is r_segment_i:
\* all segments of r and no segment of another region, also when one name
\* is part of another.
C11_GroupsOwnSegments ==
    last_call = "get_structures_slice_coords"
    => /\ {coordinates[k][1] : k \in 1..Len(coordinates)}
            = {AllActors[i].name : i \in 1..Len(AllActors)}
       /\ \A i \in 1..Len(AllActors) :
            DictGet(coordinates, AllActors[i].name)
                = OwnSegments(AllActors[i].name, Len(projected))

\* C12: on a plane built from accepted vectors u, v of any length, P3toP2
\* of the point origin + a * plane.u + b * plane.v (plane.u, plane.v the
\* stored unit vectors) returns (a, b).
C12_ProjectionRoundTrip ==
    last_call = "P3toP2"
    => ret.value = <<<<call_args.a, call_args.b>>>>

\* a vector of length 1, in units of 1/Unit
IsUnit(a) == Dot3(a, a) = Unit * Unit

\* a is a positive multiple of b
SameDirection(a, b) ==
    /\ Cross3(a, b) = Zero3
    /\ Dot3(a, b) > 0

\* C13: Plane(origin, u, v) raises, and yields no Plane, whenever u or v is
\* the zero vector or u and v are not orthogonal; for every pair of
\* non-zero orthogonal vectors it returns a plane with unit-length u and v,
\* u.v = 0 and a unit-length normal equal to u x v.
C13_PlaneConstruction ==
    last_call = "Plane"
    => IF \/ call_args.u = Zero3
          \/ call_args.v = Zero3
          \/ Dot3(call_args.u, call_args.v) # 0
       THEN ret.kind = "raise"
       ELSE /\ ret.kind = "plane"
            /\ ret.center = call_args.origin
            /\ IsUnit(ret.u) /\ SameDirection(ret.u, call_args.u)
            /\ IsUnit(ret.v) /\ SameDirection(ret.v, call_args.v)
            /\ Dot3(ret.u, ret.v) = 0
            /\ IsUnit(ret.normal)
            /\ Cross3(ret.u, ret.v) = <<ret.normal[1] * Unit,
                                        ret.normal[2] * Unit,
                                        ret.normal[3] * Unit>>

C13_Witness ==
    /\ last_call = "Plane"
    /\ call_args.u = Vec(3, 4, 0)
    /\ call_args.v = Vec(0, 0, 5)
    /\ ret.kind = "plane"
    /\ ret.normal = <<52, -39, 0>>

\* C14: for every non-zero vector n, from_norm(origin, n) builds a plane
\* whose u is perpendicular to n, whose v is perpendicular to u and to n,
\* and whose u x v is a positive multiple of n; for the zero vector it
\* raises and returns no plane.
C14_FromNormBasis ==
    last_call = "from_norm"
    => IF call_args.norm = Zero3 THEN ret.kind = "raise"
       ELSE /\ ret.kind = "plane"
            /\ ret.center = call_args.origin
            /\ Dot3(ret.u, call_args.norm) = 0
            /\ Dot3(ret.v, call_args.norm) = 0
            /\ Dot3(ret.v, ret.u) = 0
            /\ SameDirection(Cross3(ret.u, ret.v), call_args.norm)
            /\ SameDirection(ret.normal, call_args.norm)

C14_Witness ==
    /\ last_call = "from_norm"
    /\ call_args.norm = Vec(3, 4, 12)
    /\ ret.kind = "plane"
    /\ ret.u = <<-52, 39, 0>>
    /\ ret.v = <<-36, -48, 25>>

\* a Slicer call with a named orientation has returned
NamedSlicerBuilt ==
    /\ last_call \in {"Slicer", "get_structures_slice_coords"}
    /\ call_args.orientation.type = "str"
    /\ call_args.orientation.value \in NamedOrientations

\* the unit vector of axis idx (0, 1 or 2)
UnitAxis(idx) == [k \in 1..3 |-> IF k = idx + 1 THEN Unit ELSE 0]

\* frontal -> axis 0, horizontal -> axis 1, sagittal -> axis 2
AxisOf(orientation) ==
    IF orientation = "frontal" THEN 0
    ELSE IF orientation = "horizontal" THEN 1 ELSE 2

\* C15: for each named orientation the Slicer is built, and plane0.normal,
\* the cross product of plane0's basis, is the positive unit vector of the
\* orientation's axis: frontal (1,0,0), horizontal (0,1,0), sagittal
\* (0,0,1), the unit vector at index get_ax_idx(orientation).
C15_NamedNormalIsAxis ==
    NamedSlicerBuilt
    => /\ ret.kind = "slicer"
       /\ plane0 = ret.plane0
       /\ plane0.normal = UnitAxis(AxisOf(call_args.orientation.value))
       /\ get_ax_idx(call_args.orientation.value)
            = Ok(AxisOf(call_args.orientation.value))
       /\ Cross3(plane0.u, plane0.v)
            = <<plane0.normal[1] * Unit, plane0.normal[2] * Unit,
                plane0.normal[3] * Unit>>

C15_Witness ==
    /\ NamedSlicerBuilt
    /\ last_call = "Slicer"
    /\ call_args.orientation.value = "horizontal"
    /\ plane0.kind = "plane"
    /\ plane0.normal = <<0, Unit, 0>>

\* a Slicer call has returned a Slicer
SlicerBuilt == call_args.op = "Slicer" /\ ret.kind = "slicer"

\* C16: for every Slicer built, plane1.normal is the exact negation of
\* plane0.normal; with a free-vector orientation v, plane0.normal is
\* normalize(v) and plane1.normal is -normalize(v).
C16_OppositeNormals ==
    SlicerBuilt
    => /\ plane1 = ret.plane1
       /\ \A k \in 1..3 : plane1.normal[k] = -plane0.normal[k]
       /\ call_args.orientation.type = "tuple"
          => /\ IsUnit(plane0.normal)
             /\ SameDirection(plane0.normal, call_args.orientation.value)

C16_Witness ==
    /\ SlicerBuilt
    /\ call_args.orientation = PyTuple(Vec(3, 4, 12))
    /\ plane0.normal = <<15, 20, 60>>
    /\ plane1.normal = <<-15, -20, -60>>

\* C17: for every Slicer built with thickness t >= 0, named orientation or
\* non-zero free vector, plane1's origin is plane0's origin displaced by
\* exactly t along plane0's unit normal; with t = 0 the two planes share
\* their origin and have opposite normals.
C17_PlanesThicknessApart ==
    SlicerBuilt
    => /\ \A k \in 1..3 :
            (plane1.center[k] - plane0.center[k]) * Unit
                = call_args.thickness * plane0.normal[k]
       /\ call_args.thickness = 0
          => /\ plane1.center = plane0.center
             /\ \A k \in 1..3 : plane1.normal[k] = -plane0.normal[k]

\* a Slicer was built from a scalar position and a named orientation
ScalarSlicerBuilt ==
    /\ SlicerBuilt
    /\ call_args.position.type \in {"int", "float"}

\* the scalar passed as position
ScalarPassed ==
    IF call_args.position.type = "int" THEN call_args.position.value
    ELSE call_args.position.whole

\* C18 as stated: with a scalar position s and a named orientation of axis
\* k, plane0's origin is the root centroid with only coordinate k replaced
\* by s, the other two coordinates as in the centroid (sagittal: a plane at
\* z = s); with position None the origin comes from the centroid alone.
C18_ScalarReplacesOneCoordinate ==
    /\ ScalarSlicerBuilt
       => \A k \in 1..3 :
            plane0.center[k] =
                IF k = AxisOf(call_args.orientation.value) + 1
                THEN ScalarPassed ELSE call_args.center_of_mass[k]
    /\ (SlicerBuilt /\ call_args.position.type = "NoneType")
       => \A k \in 1..2 : plane0.center[k] = call_args.center_of_mass[k]

\* C18: with a scalar position s and a named orientation of axis k,
\* plane0's origin is the root centroid with coordinate k replaced by s and
\* then the third coordinate negated (frontal: x = s, y and -z of the
\* centroid; sagittal: z = -s); with position None it is the centroid with
\* the third coordinate negated.
C18_ScalarReplacesThenFlipsZ ==
    /\ ScalarSlicerBuilt
       => \A k \in 1..3 :
            plane0.center[k] =
                (IF k = 3 THEN -1 ELSE 1)
                * (IF k = AxisOf(call_args.orientation.value) + 1
                   THEN ScalarPassed ELSE call_args.center_of_mass[k])
    /\ (SlicerBuilt /\ call_args.position.type = "NoneType")
       => plane0.center = <<call_args.center_of_mass[1],
                            call_args.center_of_mass[2],
                            -call_args.center_of_mass[3]>>

C18_Witness ==
    /\ ScalarSlicerBuilt
    /\ call_args.position = PyInt(90)
    /\ call_args.orientation = PyStr("sagittal")
    /\ plane0.center = <<40, 24, -90>>

\* the Slicer call raised and left no plane
SlicerFailed ==
    /\ last_call = "Slicer"
    /\ ret.kind = "raise"
    /\ plane0 = NoPlane
    /\ plane1 = NoPlane

\* C19: a Slicer call with a bare scalar position (int or float) and a
\* free-vector (non-string) orientation raises and builds no plane.
C19_ScalarNeedsNamedOrientation ==
    (/\ call_args.op = "Slicer"
     /\ call_args.position.type \in {"int", "float"}
     /\ call_args.orientation.type # "str")
    => SlicerFailed /\ ret.error = "ValueError"

C19_Witness ==
    /\ call_args.op = "Slicer"
    /\ call_args.position = PyFloat(70, 0)
    /\ call_args.orientation = PyTuple(Vec(0, 0, 5))
    /\ SlicerFailed

\* C20: a Slicer call with an orientation string other than "frontal",
\* "sagittal" or "horizontal" raises for every form of position (None,
\* scalar or 3-vector) and builds no plane.
C20_UnknownOrientationRaises ==
    (/\ call_args.op = "Slicer"
     /\ call_args.orientation.type = "str"
     /\ call_args.orientation.value \notin {"frontal", "sagittal", "horizontal"})
    => SlicerFailed /\ ret.error = "ValueError"

C20_Witness ==
    /\ call_args.op = "Slicer"
    /\ call_args.position = PyTuple(<<10, 20, 30>>)
    /\ call_args.orientation = PyStr("coronal")
    /\ SlicerFailed

(***************************************************************************)
(* Properties of the search loop.                                          *)
(***************************************************************************)
\* max_potential <= best_distance + precision, best_distance finite
WithinTolerance(c) ==
    /\ best_distance # NegInf
    /\ MaxPotential(c) <= best_distance + precision * Resolution

\* C26: the loop pops the cell of largest upper bound (distance +
\* cell_radius * sqrt(2)) among the queued cells; it exits only on an empty
\* queue or on a popped cell whose upper bound is at most best_distance +
\* precision; and at exit no cell left in the queue has an upper bound
\* greater than best_distance + precision.
C26_LargestBoundFirst ==
    /\ [][(pc = "loop" /\ cell_queue # {}) =>
            /\ popped' \in cell_queue
            /\ \A c \in cell_queue : MaxPotential(c) <= MaxPotential(popped')
            /\ pc' = "done" => WithinTolerance(popped')]_vars
    /\ [](pc = "done" => \A c \in cell_queue : WithinTolerance(c))

\* the loop has refined a cell, then left by the break with cells queued
C26_Witness ==
    /\ pc = "done"
    /\ cell_queue # {}
    /\ popped # NoCell
    /\ CellRadius(popped) < InitialRadius(polygon_vertices)

\* C27: when the centre of the bounding box lies outside a polygon of
\* positive area, the call does not return that centre.
C27_OutsideCentreReplaced ==
    (/\ pc = "done"
     /\ SignedArea2(polygon_vertices) # 0
     /\ ~ContainsPoint(polygon_vertices, BBoxX(polygon_vertices),
                       BBoxY(polygon_vertices)))
    => result # Point(BBoxX(polygon_vertices), BBoxY(polygon_vertices))


(***************************************************************************)
(* Heatmap: the values, the colour range and the construction.  A number   *)
(* is kept in twentieths, so that the halving of prepare_colors is exact   *)
(* on ints and on floats with one decimal digit.                           *)
(***************************************************************************)
\* float("nan")
PyNaN == [type |-> "float", nan |-> TRUE]

\* np.isnan(v)
IsNaN(v) == v.type = "float" /\ "nan" \in DOMAIN v

\* isinstance(v, (float, int)); bool is a subclass of int
IsNumber(v) == v.type \in {"float", "int", "bool"}

\* a float result, in twentieths
Num(n) == [type |-> "number", twentieths |-> n]

\* the value of a number that is not nan, in twentieths
Twentieths(v) ==
    CASE v.type = "int" -> 20 * v.value
      [] v.type = "bool" -> IF v.value THEN 20 ELSE 0
      [] v.type = "float" -> 20 * v.whole + 2 * v.tenths
      [] v.type = "number" -> v.twentieths

\* atlas.lookup_df.acronym.values
AtlasAcronyms == {"root", "TH", "RSP", "VIS", "VISp", "HIP", "CB"}

\* every key is taken for a region of the atlas
check_values_KeysUnchecked(vals) ==
    IF \E i \in 1..Len(vals) : ~IsNumber(vals[i][2])
    THEN Raise("ValueError")
    ELSE LET not_nan == {Twentieths(vals[i][2]) :
                            i \in {j \in 1..Len(vals) : ~IsNaN(vals[j][2])}}
         IN  IF not_nan = {} THEN Ok(<<PyNaN, PyNaN>>)
             ELSE Ok(<<Num(SetMax(not_nan)), Num(SetMin(not_nan))>>)

\* check_values: (vmax, vmin) of the values that are not nan, or ValueError
check_values(vals) ==
    IF \E i \in 1..Len(vals) :
          ~IsNumber(vals[i][2]) \/ vals[i][1] \notin AtlasAcronyms
    THEN Raise("ValueError")
    ELSE LET not_nan == {Twentieths(vals[i][2]) :
                            i \in {j \in 1..Len(vals) : ~IsNaN(vals[j][2])}}
         IN  IF not_nan = {} THEN Ok(<<PyNaN, PyNaN>>)
             ELSE Ok(<<Num(SetMax(not_nan)), Num(SetMin(not_nan))>>)

\* a range of one point is left as it is
Widened_Kept(hi, lo) == lo

\* if _vmax == _vmin: _vmin = _vmax * 0.5     (nan == nan is False)
Widened(hi, lo) ==
    IF ~IsNaN(hi) /\ ~IsNaN(lo) /\ hi = lo
    THEN Num(hi.twentieths \div 2) ELSE lo

\* bool(arg)
Truthy(arg) ==
    CASE arg.type = "NoneType" -> FALSE
      [] IsNaN(arg) -> TRUE
      [] OTHER -> Twentieths(arg) # 0

\* arg if arg == 0 or arg else default
ArgOr(arg, default) ==
    IF (IsNumber(arg) /\ ~IsNaN(arg) /\ Twentieths(arg) = 0) \/ Truthy(arg)
    THEN Num(Twentieths(arg)) ELSE default

\* map_color(v, name=cmap, vmin=vmin, vmax=vmax): the call, not the colour
MapColor(v, lo, hi) == [value |-> v, vmin |-> lo, vmax |-> hi]

\* settings.ROOT_COLOR
RootColor == [name |-> "grey_darker"]

\* prepare_colors: self.vmin, self.vmax, self.colors, or ValueError
prepare_colors(vals, vmin_arg, vmax_arg) ==
    LET checked == check_values(vals)
    IN  IF checked.kind = "raise" THEN checked
        ELSE LET hi == checked.value[1]
                 lo == Widened(hi, checked.value[2])
                 new_vmin == ArgOr(vmin_arg, lo)
                 new_vmax == ArgOr(vmax_arg, hi)
             IN  [kind |-> "ok", vmin |-> new_vmin, vmax |-> new_vmax,
                  colors |-> DictSet(
                      [i \in 1..Len(vals) |->
                          <<vals[i][1], MapColor(vals[i][2], new_vmin, new_vmax)>>],
                      "root", RootColor)]

\* the outlines where the slicing plane cuts the mesh of a region, in the
\* plane's coordinates; VIS and VISp are not on the slice
AtlasLoops(name) ==
    CASE name = "root" -> <<Square(32)>>
      [] name = "TH" -> <<Strip(10), Strip(3)>>
      [] name = "RSP" -> <<Strip(7)>>
      [] name = "CB" -> <<Triangle(32)>>
      [] name = "HIP" -> <<Strip(3)>>
      [] OTHER -> <<>>

AtlasActor(name) == Actor(name, AtlasLoops(name))

\* [r for r in scene.get_actors(br_class="brain region") if r.name != "root"]
\* after scene.add_brain_region(*names)
RECURSIVE RegionActors(_, _)
RegionActors(names, n) ==
    IF n = 0 THEN <<>>
    ELSE RegionActors(names, n - 1)
         \o (IF names[n] # "root" THEN <<AtlasActor(names[n])>> ELSE <<>>)

\* the Heatmap that was built, or the error and what was done before it
Built(kind, error, made, prepared, meshes, slicer) ==
    [kind |-> kind, error |-> error, calls |-> made, prepared |-> prepared,
     regions_meshes |-> meshes, slicer |-> slicer]

\* Heatmap.__init__ from the Scene on (lines 323-345)
Heatmap(vals, position, named, thickness, vmin_arg, vmax_arg) ==
    CHOOSE built \in
        {IF prepared.kind = "raise"
         THEN Built("raise", prepared.error, <<[op |-> "Scene"]>>,
                    prepared, <<>>, NoReturn)
         ELSE Built(IF slicer.kind = "raise" THEN "raise" ELSE "heatmap",
                    IF slicer.kind = "raise" THEN slicer.error ELSE "",
                    <<[op |-> "Scene"],
                      [op |-> "add_brain_region", names |-> DictKeys(vals)],
                      [op |-> "Slicer", position |-> position,
                       orientation |-> named, thickness |-> thickness]>>,
                    prepared,
                    RegionActors(DictKeys(vals), Len(vals)),
                    slicer) :
            prepared \in {prepare_colors(vals, vmin_arg, vmax_arg)},
            slicer \in {Slicer(position, named, thickness,
                               <<40, 24, 16>>)}} : TRUE

\* only plane0 cuts the regions
slice_scene_Plane0Only(p0, p1, regions, rootActor) ==
    <<[op |-> "slice", plane |-> p0, actors |-> regions, close_actors |-> TRUE],
      [op |-> "slice", plane |-> p0, actors |-> <<rootActor>>,
       close_actors |-> FALSE]>>

\* Slicer.slice_scene(scene, regions)
slice_scene(p0, p1, regions, rootActor) ==
    <<[op |-> "slice", plane |-> p0, actors |-> regions, close_actors |-> TRUE],
      [op |-> "slice", plane |-> p1, actors |-> regions, close_actors |-> TRUE],
      [op |-> "slice", plane |-> p0, actors |-> <<rootActor>>,
       close_actors |-> FALSE]>>

\* for region, color in self.colors.items(): ... .color(color), root skipped
RECURSIVE ColorCalls(_, _)
ColorCalls(cols, n) ==
    IF n = 0 THEN <<>>
    ELSE ColorCalls(cols, n - 1)
         \o (IF cols[n][1] # "root"
             THEN <<[op |-> "color", name |-> cols[n][1], color |-> cols[n][2]]>>
             ELSE <<>>)

\* the camera of render(camera=None) for a named orientation
Camera(named) ==
    CASE named = "sagittal" -> "sagittal_camera2"
      [] named = "horizontal" -> "top"
      [] OTHER -> named

\* Heatmap.render()
render(cols, named) ==
    ColorCalls(cols, Len(cols))
    \o <<[op |-> "render", camera |-> Camera(named)]>>

\* Heatmap.show(): 3D slices the scene and renders it; 2D plots
show(fmt, p0, p1, regions, rootActor, ar, lab, vals, lo, hi, cols, camera, plotted, bar, text) ==
    IF fmt = "3D"
    THEN [regions |-> regions, projected |-> plotted.projected,
          fills |-> plotted.fills, annotations |-> plotted.annotations,
          raised |-> FALSE,
          calls |-> slice_scene(p0, p1, regions, rootActor)
                    \o render(cols, camera)]
    ELSE plot_subplot(p0, regions, rootActor, ar, fmt, lab, vals, lo, hi,
                      bar, text)

(***************************************************************************)
(* The heatmaps the model builds and shows.                                *)
(***************************************************************************)
HeatValues ==
    {<<>>,
     <<<<"TH", PyInt(1)>>>>,
     <<<<"TH", PyFloat(1, 0)>>, <<"RSP", PyNaN>>>>,
     <<<<"TH", PyInt(-2)>>>>,
     <<<<"TH", PyInt(0)>>>>,
     <<<<"TH", PyNaN>>>>,
     <<<<"TH", PyInt(1)>>, <<"HIP", PyInt(3)>>, <<"VIS", PyInt(2)>>,
       <<"CB", PyInt(-4)>>>>,
     <<<<"TH", PyFloat(2, 5)>>, <<"RSP", PyFloat(2, 5)>>>>,
     <<<<"TH", PyStr("high")>>>>,
     <<<<"TH", PyInt(1)>>, <<"XX", PyInt(2)>>>>,
     <<<<"RSP", PyInt(1)>>, <<"TH", PyNone>>>>}

\* the vmin and vmax arguments
RangeArgs ==
    {<<PyNone, PyNone>>, <<PyInt(-5), PyInt(3)>>, <<PyInt(0), PyNone>>,
     <<PyNone, PyInt(0)>>}

\* position: a scalar along the axis of the named orientation
HeatmapPositions == {PyInt(90)}

HeatmapOrientations == {PyStr("frontal"), PyStr("sagittal"), PyStr("coronal")}

HeatmapAnnotateOptions ==
    {PyBool(TRUE), PyBool(FALSE), PyNone, PyList(<<>>), PyDict(<<>>),
     PyList(<<"TH", "SS">>), PyList(<<"CB">>),
     PyDict(<<<<"TH", PyStr("Thalamus")>>, <<"CB", PyFloat(25, 5)>>>>)}

CbarLabels == {PyNone, PyStr("density")}

\* thickness: float = 10
DefaultThickness == 10

HeatmapInit ==
    /\ NoSearch
    /\ NoPlot
    /\ NoSlicer
    /\ NoHeatmap

\* Heatmap(values, position, orientation, vmin=..., vmax=..., format=...,
\*         label_regions=..., annotate_regions=...)
NewHeatmap ==
    /\ last_call = "none"
    /\ \E vals \in HeatValues, range \in RangeArgs,
          position \in HeatmapPositions, named \in HeatmapOrientations,
          fmt \in {"2D", "3D"}, lab \in BOOLEAN,
          ar \in HeatmapAnnotateOptions :
        \E built \in {Heatmap(vals, position, named, DefaultThickness,
                              range[1], range[2])} :
            /\ values' = vals
            /\ format' = fmt
            /\ self_orientation' = named
            /\ label_regions' = lab
            /\ annotate_regions' = ar
            /\ root' = AtlasActor("root")
            /\ vmin' = IF built.prepared.kind = "ok"
                       THEN built.prepared.vmin ELSE vmin
            /\ vmax' = IF built.prepared.kind = "ok"
                       THEN built.prepared.vmax ELSE vmax
            /\ colors' = IF built.prepared.kind = "ok"
                         THEN built.prepared.colors ELSE colors
            /\ regions_meshes' = built.regions_meshes
            /\ plane0' = IF built.kind = "heatmap"
                         THEN built.slicer.plane0 ELSE plane0
            /\ plane1' = IF built.kind = "heatmap"
                         THEN built.slicer.plane1 ELSE plane1
            /\ calls' = built.calls
            /\ ret' = IF built.kind = "raise" THEN Raise(built.error)
                      ELSE [kind |-> "heatmap"]
            /\ call_args' = [op |-> "Heatmap", values |-> vals,
                             vmin |-> range[1], vmax |-> range[2],
                             position |-> position]
    /\ last_call' = "Heatmap"
    /\ UNCHANGED <<projected, fills, annotations, coordinates>>
    /\ UNCHANGED searchVars

\* heatmap.show(show_cbar=..., cbar_label=...)
Show ==
    /\ last_call \in {"Heatmap", "show"}
    /\ ret.kind = "heatmap"
    /\ \E show_cbar \in BOOLEAN, cbar_label \in CbarLabels :
        \E shown \in {show(format, plane0, plane1, regions_meshes, root,
                           annotate_regions, label_regions, values, vmin,
                           vmax, colors, self_orientation.value,
                           [projected |-> projected, fills |-> fills,
                            annotations |-> annotations],
                           show_cbar, cbar_label)} :
            /\ regions_meshes' = shown.regions
            /\ projected' = shown.projected
            /\ fills' = shown.fills
            /\ annotations' = shown.annotations
            /\ calls' = shown.calls
            /\ last_call' = IF shown.raised THEN "show raised" ELSE "show"
            /\ call_args' = [op |-> "show", show_cbar |-> show_cbar,
                             cbar_label |-> cbar_label]
    /\ UNCHANGED <<root, plane0, plane1, annotate_regions, format,
                   coordinates, ret>>
    /\ UNCHANGED <<values, vmin, vmax, colors, label_regions,
                   self_orientation>>
    /\ UNCHANGED searchVars

HeatmapNext ==
    \/ NewHeatmap
    \/ Show

HeatmapSpec == HeatmapInit /\ [][HeatmapNext]_vars

(***************************************************************************)
(* What the properties of the Heatmap speak about.                         *)
(***************************************************************************)
\* the last operation is a Heatmap(...) call that returned the instance
HeatmapBuilt == call_args.op = "Heatmap" /\ ret.kind = "heatmap"

\* ... with neither vmin nor vmax supplied
AutoRange ==
    /\ HeatmapBuilt
    /\ call_args.vmin = PyNone
    /\ call_args.vmax = PyNone

\* the values that are not nan, in twentieths
NotNaN == {Twentieths(values[i][2]) :
              i \in {j \in 1..Len(values) : ~IsNaN(values[j][2])}}

\* every key of values has its mesh among the regions and its colour
AllRegionsKept ==
    \A i \in 1..Len(values) :
        /\ \E j \in 1..Len(regions_meshes) : regions_meshes[j].name = values[i][1]
        /\ HasKey(colors, values[i][1])

\* C21: with neither vmin nor vmax supplied, vmin and vmax are the minimum
\* and the maximum of the values that are not nan (for {A: 1.0, B: nan}
\* both are 1.0), and a region whose value is nan is kept among the regions
\* to draw.
C21_AutoRangeIsExtrema ==
    (AutoRange /\ NotNaN # {})
    => /\ vmin = Num(SetMin(NotNaN))
       /\ vmax = Num(SetMax(NotNaN))
       /\ AllRegionsKept

\* C21 as the code has it: vmax is the maximum of the values that are not
\* nan; vmin is their minimum when they are not all equal, and half of
\* that value when they are (for {A: 1.0, B: nan}: vmin 0.5, vmax 1.0); a
\* region whose value is nan is kept among the regions to draw.
C21_AutoRangeIsExtremaOrHalved ==
    (AutoRange /\ NotNaN # {})
    => /\ vmax = Num(SetMax(NotNaN))
       /\ vmin.type = "number"
       /\ IF SetMin(NotNaN) = SetMax(NotNaN)
          THEN 2 * vmin.twentieths = SetMax(NotNaN)
          ELSE vmin.twentieths = SetMin(NotNaN)
       /\ AllRegionsKept

\* {A: 1.0, B: nan} with the range left to the data
C21_Witness ==
    /\ AutoRange
    /\ values = <<<<"TH", PyFloat(1, 0)>>, <<"RSP", PyNaN>>>>
    /\ vmin = Num(10)
    /\ vmax = Num(20)
    /\ \E j \in 1..Len(regions_meshes) : regions_meshes[j].name = "RSP"

\* a value that is not a number, or a key the atlas does not know
InvalidValues(vals) ==
    \E i \in 1..Len(vals) :
        \/ vals[i][2].type \notin {"int", "float", "bool"}
        \/ vals[i][1] \notin AtlasAcronyms

\* C22: Heatmap(...) on values with a non-numeric value or a key unknown to
\* the atlas raises before any region is added to the scene and before the
\* Slicer is built: the instance has no regions_meshes and no slicer.
C22_InvalidValuesRejectedFirst ==
    (call_args.op = "Heatmap" /\ InvalidValues(call_args.values))
    => /\ ret = Raise("ValueError")
       /\ \A i \in 1..Len(calls) : calls[i].op \notin {"add_brain_region", "Slicer"}
       /\ regions_meshes = <<>>
       /\ plane0 = NoPlane
       /\ plane1 = NoPlane

\* a key unknown to the atlas was passed, after a valid entry
C22_Witness ==
    /\ call_args.op = "Heatmap"
    /\ call_args.values = <<<<"TH", PyInt(1)>>, <<"XX", PyInt(2)>>>>
    /\ ret = Raise("ValueError")
    /\ calls = <<[op |-> "Scene"]>>

\* C29: with vmin and vmax both left unset and at least one value that is
\* not nan, the stored range satisfies vmin <= vmax, also when all values
\* are equal (one negative value, one zero, one positive value).
C29_RangeOrdered ==
    (AutoRange /\ NotNaN # {}) => vmin.twentieths <= vmax.twentieths

\* the last operation is a show() of a 3D heatmap that returned
ShownIn3D == call_args.op = "show" /\ last_call = "show" /\ format = "3D"

\* the scene's slice primitive was handed the plane for the actor, before
\* the scene was rendered
SlicedBy(plane, actor) ==
    \E i \in 1..Len(calls) :
        /\ calls[i].op = "slice"
        /\ calls[i].plane = plane
        /\ \E j \in 1..Len(calls[i].actors) : calls[i].actors[j] = actor
        /\ \A k \in 1..i : calls[k].op # "render"

Rendered == \E i \in 1..Len(calls) : calls[i].op = "render"

\* neither get_structures_slice_coords nor the point finder has run
NothingProjected ==
    /\ projected = <<>>
    /\ coordinates = <<>>
    /\ fills = <<>>
    /\ annotations = <<>>
    /\ pc = "idle"
    /\ result = NotCalled

\* C23: in 3D format show() hands both plane0 and plane1 to the scene's
\* slice primitive for every region mesh and also for the root mesh, before
\* rendering; the 2D projector and the interior point finder are not
\* invoked.
C23_BothPlanesSliceAll ==
    ShownIn3D
    => /\ \A j \in 1..Len(regions_meshes) :
            /\ SlicedBy(plane0, regions_meshes[j])
            /\ SlicedBy(plane1, regions_meshes[j])
       /\ SlicedBy(plane0, root)
       /\ SlicedBy(plane1, root)
       /\ Rendered
       /\ NothingProjected

\* C23 as the code has it: in 3D format show() hands both plane0 and plane1
\* to the scene's slice primitive for every region mesh, and plane0 alone
\* for the root mesh, before rendering; the 2D projector and the interior
\* point finder are not invoked.
C23_BothPlanesSliceRegions ==
    ShownIn3D
    => /\ \A j \in 1..Len(regions_meshes) :
            /\ SlicedBy(plane0, regions_meshes[j])
            /\ SlicedBy(plane1, regions_meshes[j])
       /\ SlicedBy(plane0, root)
       /\ ~SlicedBy(plane1, root)
       /\ Rendered
       /\ NothingProjected

\* a 3D heatmap of four regions has been shown
C23_Witness ==
    /\ ShownIn3D
    /\ Len(regions_meshes) = 4
    /\ plane0 # plane1
    /\ Rendered

\* the regions annotate_regions selects
SelectedNames ==
    CASE annotate_regions = PyBool(TRUE) ->
            {regions_meshes[j].name : j \in 1..Len(regions_meshes)}
      [] annotate_regions.type = "list" -> NamesIn(annotate_regions)
      [] annotate_regions.type = "dict" -> KeysOf(annotate_regions)
      [] OTHER -> {}

\* the text of the label of a selected region
LabelText(name) ==
    IF annotate_regions.type = "dict"
    THEN Str(DictGet(annotate_regions.value, name)) ELSE name

\* C24: in 3D format show() adds one scene label for each region selected
\* by annotate_regions, with the region name as text (str(value) for a
\* mapping), no label for an unselected region or for "root", and no label
\* at all when annotate_regions is False, None, [] or {}.
C24_LabelsIn3D ==
    ShownIn3D
    => LET added == {i \in 1..Len(calls) : calls[i].op = "add_label"}
           labelled == {regions_meshes[j].name : j \in 1..Len(regions_meshes)}
                       \cap (SelectedNames \ {"root"})
       IN  /\ {calls[i].label : i \in added} = {LabelText(n) : n \in labelled}
           /\ Cardinality(added) = Cardinality(labelled)

\* the last operation is a show() of a 2D heatmap
ShownIn2D == call_args.op = "show" /\ format = "2D"

\* the calls of the last operation on the figure or the colorbar with one
\* of the given names
CallsOf(ops) == {i \in 1..Len(calls) : calls[i].op \in ops}

\* the value lies within [vmin, vmax]
InRange(v) ==
    /\ IsNumber(v)
    /\ ~IsNaN(v)
    /\ "twentieths" \in DOMAIN vmin
    /\ "twentieths" \in DOMAIN vmax
    /\ vmin.twentieths <= Twentieths(v)
    /\ Twentieths(v) <= vmax.twentieths

\* <<name, value in twentieths>> of the regions other than root with a
\* segment in the slice and a value within [vmin, vmax]
VisibleInRange ==
    {<<values[i][1], Twentieths(values[i][2])>> :
        i \in {j \in 1..Len(values) :
                  /\ values[j][1] # "root"
                  /\ \E id \in PieceIds : id[1] = values[j][1]
                  /\ InRange(values[j][2])}}

\* C25: in plot_subplot, show_cbar = False creates no colorbar and sets no
\* ticks or label whatever label_regions and cbar_label are; with show_cbar
\* = True and label_regions = True the colorbar ticks are set exactly once,
\* to the values of the regions other than root that have a segment in the
\* slice and a value within [vmin, vmax], with those region names as the
\* tick labels in matching order.
C25_ColorbarTicks ==
    (ShownIn2D /\ last_call = "show")
    => /\ ~call_args.show_cbar
          => CallsOf({"colorbar", "set_ticks", "set_yticklabels",
                      "set_label"}) = {}
       /\ (call_args.show_cbar /\ label_regions)
          => /\ Cardinality(CallsOf({"set_ticks"})) = 1
             /\ \A i \in CallsOf({"set_ticks"}) :
                    /\ Len(calls[i].ticks) = Len(calls[i].labels)
                    /\ Len(calls[i].ticks) = Cardinality(VisibleInRange)
                    /\ {<<calls[i].labels[k], calls[i].ticks[k]>> :
                            k \in 1..Len(calls[i].ticks)} = VisibleInRange

\* the projected outline of the piece has fewer than 4 vertices
FewVertices(id) ==
    Len(DictGet(projected, id[1] \o "_segment_" \o id[2])) < 4

\* C28: in plot_subplot, a segment of a selected region for which the
\* interior point finder yields no point (an outline of fewer than 4
\* vertices) gets no annotation: no annotate call is made for it, no error
\* is raised, and the remaining segments are still filled and annotated.
C28_NoPointSkipsAnnotation ==
    ShownIn2D
    => /\ last_call = "show"
       /\ Len(fills) = Len(projected)
       /\ AnnotatedIds = {id \in PiecesNamed(SelectedNames) : ~FewVertices(id)}

\* the keys of a dict
KeySet(d) == {d[i][1] : i \in 1..Len(d)}

\* C30: get_structures_slice_coords leaves its inputs unchanged: after the
\* call the caller's regions list has the same elements (root is not
\* appended to it) and the planes are the same, and a call that follows
\* another returns the same set of keys.
C30_InputsUnchanged ==
    [][(call_args'.op = "show" /\ format = "2D")
       => /\ regions_meshes' = regions_meshes
          /\ root' = root
          /\ plane0' = plane0
          /\ plane1' = plane1
          /\ (call_args.op = "show" /\ last_call = "show"
              /\ last_call' = "show")
             => KeySet(projected') = KeySet(projected)]_vars

\* a 2D heatmap of several regions has been plotted
C30_Witness ==
    /\ ShownIn2D
    /\ last_call = "show"
    /\ Len(regions_meshes) = 4
    /\ Len(projected) > Len(regions_meshes)
    /\ \A j \in 1..Len(regions_meshes) : regions_meshes[j].name # "root"

====
